---- MODULE Spec2Model ----
(***************************************************************************)
(* MedEase-AI backend: multi-provider inference orchestration.             *)
(*                                                                         *)
(*   - provider registry        (config/aiProvider.js, getAvailableProviders)*)
(*   - fallback orchestrator    (config/aiProvider.js, generateAIResponse) *)
(*   - consensus orchestrator   (services/consensusAI.js)                  *)
(*   - interpretReport handler  (controllers/aiController.js)              *)
(*                                                                         *)
(*   - report assembly          (controllers/aiController.js: the text     *)
(*                               extractor, the findings merge, enrichment)*)
(*                                                                         *)
(* The specifications share the variables:                                 *)
(*   Spec          one interpretReport request, end to end                 *)
(*   SpecConsensus one direct getConsensusResponse call, any options       *)
(*   SpecJson      synthesizeConsensus applied to bounded response lists   *)
(*   SpecOrder     getConsensusResponse with answers fixed in advance      *)
(*   SpecFallback  generateAIResponse with adapter payloads                *)
(*   SpecExtract   extractAbnormalFromText applied to bounded texts        *)
(*   SpecAssemble  interpretReport from the answer to the response         *)
(*   SpecRanges    the reference-range enrichment over bounded answers     *)
(*   SpecAdapter   one transport adapter call with its model loop          *)
(*   SpecCache     concurrent drug lookups over the shared cache           *)
(***************************************************************************)
EXTENDS Integers, Sequences, FiniteSets, TLC

VARIABLES env, req, pc, calls, consensus, result, out, jsonIn, jsonOut,
          willAnswer, settled, report, adapter, memoryCache, lookups, writes

vars == <<env, req, pc, calls, consensus, result, out, jsonIn, jsonOut, willAnswer,
          settled, report, adapter, memoryCache, lookups, writes>>

(***************************************************************************)
(* Bounds of the model.                                                    *)
(***************************************************************************)
\* largest number of credential variables set in one environment
MaxKeys == 3
\* largest minProviders option tried on a direct consensus call
MaxMinProviders == 2
\* largest number literal in a modelled JSON answer
MaxNum == 2
\* longest sequence value in a modelled JSON answer
MaxArrayLen == 1
\* longest preferredProviders option tried on a direct generateAIResponse call
MaxPreferred == 2

(***************************************************************************)
(* Generic sequence helpers.                                               *)
(***************************************************************************)
RECURSIVE SeqFilter(_, _)
\* s.filter(x => Keep[x]) for a Boolean-valued function Keep on indices
SeqFilter(s, keep) ==
    IF s = <<>> THEN <<>>
    ELSE LET rest == SeqFilter(Tail(s), [i \in 1..(Len(s) - 1) |-> keep[i + 1]])
         IN  IF keep[1] THEN <<Head(s)>> \o rest ELSE rest

RECURSIVE Flatten(_)
\* [s1, s2, ...].flat()
Flatten(ss) == IF ss = <<>> THEN <<>> ELSE Head(ss) \o Flatten(Tail(ss))

RECURSIVE InsertByRank(_, _)
\* insert the pair x into the rank-sorted r after every pair whose rank is
\* <= x's, so equal ranks keep their arrival order (Array.prototype.sort is
\* stable)
InsertByRank(x, r) ==
    IF r = <<>> THEN <<x>>
    ELSE IF Head(r).rank <= x.rank
         THEN <<Head(r)>> \o InsertByRank(x, Tail(r))
         ELSE <<x>> \o r

RECURSIVE SortPairs(_)
SortPairs(s) ==
    IF s = <<>> THEN <<>>
    ELSE InsertByRank(s[Len(s)], SortPairs(SubSeq(s, 1, Len(s) - 1)))

\* s.sort((a, b) => ranks[a] - ranks[b]), ranks given per index of s
StableSort(s, ranks) ==
    LET sorted == SortPairs([i \in 1..Len(s) |-> [rank |-> ranks[i], item |-> s[i]]])
    IN  [i \in 1..Len(s) |-> sorted[i].item]

(***************************************************************************)
(* JSON values and texts.                                                  *)
(*                                                                         *)
(* A text is a sequence of one-character strings.  A JSON value is a       *)
(* number, a string or a sequence of numbers and strings; an object is a   *)
(* function from its keys to values (an absent key is outside DOMAIN).     *)
(***************************************************************************)
Num(n) == [t |-> "num", n |-> n, s |-> <<>>, items |-> <<>>]
Str(s) == [t |-> "str", n |-> 0, s |-> s, items |-> <<>>]
Arr(items) == [t |-> "arr", n |-> 0, s |-> <<>>, items |-> items]

Digits == <<"0", "1", "2", "3", "4", "5", "6", "7", "8", "9">>

RECURSIVE Decimal(_)
\* the decimal text of a natural number
Decimal(n) ==
    IF n < 10 THEN <<Digits[n + 1]>>
    ELSE Decimal(n \div 10) \o <<Digits[(n % 10) + 1]>>

\* JSON.stringify of a number or a string
StringifyScalar(v) ==
    IF v.t = "num" THEN Decimal(v.n) ELSE <<"\"">> \o v.s \o <<"\"">>

RECURSIVE JoinItems(_)
JoinItems(items) ==
    IF items = <<>> THEN <<>>
    ELSE IF Len(items) = 1 THEN StringifyScalar(items[1])
    ELSE StringifyScalar(items[1]) \o <<",">> \o JoinItems(Tail(items))

\* JSON.stringify(value)
JsonStringify(v) ==
    IF v.t = "arr" THEN <<"[">> \o JoinItems(v.items) \o <<"]">>
    ELSE StringifyScalar(v)

IsDigit(c) == \E d \in 1..10 : Digits[d] = c

RECURSIVE ParseNat(_)
ParseNat(k) ==
    IF k = <<>> THEN 0
    ELSE 10 * ParseNat(SubSeq(k, 1, Len(k) - 1))
         + ((CHOOSE d \in 1..10 : Digits[d] = k[Len(k)]) - 1)

\* whether a property key is an "integer index": the canonical decimal text
\* of an integer in 0..2^32-2.  OrdinaryOwnPropertyKeys lists such keys
\* first, in ascending numeric order, before all other string keys.  Every
\* canonical text of at most nine digits is below 2^32-1; longer ones do not
\* occur in the model.
IsArrayIndexKey(k) ==
    /\ k # <<>>
    /\ Len(k) <= Len(Digits) - 1
    /\ \A i \in 1..Len(k) : IsDigit(k[i])
    /\ (Len(k) > 1 => k[1] # "0")

NoObject == <<>>

(***************************************************************************)
(* A provider's raw answer text, by its shape:                             *)
(*   compact  exactly one JSON object, compact                             *)
(*   pretty   exactly one JSON object, indented by two spaces              *)
(*   wrapped  prose or a code fence around one JSON object                 *)
(*   broken   braces present, but the span between them is not JSON        *)
(*   prose    no braces, not JSON                                          *)
(*   blank    whitespace only                                              *)
(*   empty    the empty string                                             *)
(*   missing  no text: the field of the response body is undefined         *)
(***************************************************************************)
Text(kind, obj) == [kind |-> kind, obj |-> obj]

\* no text at all
NoAnswer == Text("none", NoObject)

NotParsed == [ok |-> FALSE, obj |-> NoObject]

\* the parse step of synthesizeJsonConsensus: the span from the first "{" to
\* the last "}" if both exist, else the whole text; null when JSON.parse throws
ParseResponse(content) ==
    IF content.kind \in {"compact", "pretty", "wrapped"}
    THEN [ok |-> TRUE, obj |-> content.obj]
    ELSE NotParsed

\* safeJsonParse: the whole text, then the span between the outer braces
safeJsonParse(text) ==
    IF text.kind \in {"compact", "pretty"} THEN [ok |-> TRUE, obj |-> text.obj]
    ELSE IF text.kind = "wrapped" THEN [ok |-> TRUE, obj |-> text.obj]
    ELSE NotParsed

\* JSON.stringify(value, null, 2) of an object
PrettyPrint(obj) == Text("pretty", obj)

(***************************************************************************)
(* The environment: which credential variables are set, and in which       *)
(* format.  "or" is a key with the OpenRouter prefix sk-or-v1-; "direct"   *)
(* is any other non-placeholder key; "none" is unset or the placeholder.   *)
(* anthropic stands for ANTHROPIC_API_KEY || OPENROUTER_API_KEY, which     *)
(* both files ignore unless it has the OpenRouter prefix.  The *_MODEL     *)
(* variables are unset, so every model name is the default one.            *)
(***************************************************************************)
KeyFormats == {"none", "direct", "or"}

Envs ==
    [gemini : KeyFormats, anthropic : {"none", "or"}, groq : BOOLEAN,
     huggingface : BOOLEAN, openai : BOOLEAN, perplexity : KeyFormats]

KeyCount(e) ==
    (IF e.gemini # "none" THEN 1 ELSE 0) + (IF e.anthropic # "none" THEN 1 ELSE 0)
    + (IF e.groq THEN 1 ELSE 0) + (IF e.huggingface THEN 1 ELSE 0)
    + (IF e.openai THEN 1 ELSE 0) + (IF e.perplexity # "none" THEN 1 ELSE 0)

\* PROVIDERS
GEMINI == "gemini"
GROQ == "groq"
HUGGINGFACE == "huggingface"
OPENAI == "openai"
OPENROUTER == "openrouter"
PERPLEXITY == "perplexity"

ProviderNames == {GEMINI, GROQ, HUGGINGFACE, OPENAI, OPENROUTER, PERPLEXITY}

GeminiOnOpenRouter == "google/gemini-2.0-flash-exp"
GeminiDirect == "gemini-2.0-flash-exp"
ClaudeOnOpenRouter == "anthropic/claude-3.5-sonnet"
GroqModel == "llama-3.3-70b-versatile"
HuggingFaceModel == "mistralai/Mistral-7B-Instruct-v0.2"
OpenAIModel == "gpt-4o-mini"
PerplexityOnOpenRouter == "perplexity/llama-3.1-sonar-large-32k-online"
PerplexityDirect == "llama-3.1-sonar-large-32k-online"
\* options.model absent
NoModel == "null"

Descriptor(name, model) == [name |-> name, model |-> model]

\* the providers array of getAvailableProviders before any reordering
DefaultProviders(e) ==
    (IF e.gemini = "or" THEN <<Descriptor(OPENROUTER, GeminiOnOpenRouter)>>
     ELSE IF e.gemini = "direct" THEN <<Descriptor(GEMINI, GeminiDirect)>>
     ELSE <<>>)
    \o (IF e.groq THEN <<Descriptor(GROQ, GroqModel)>> ELSE <<>>)
    \o (IF e.huggingface THEN <<Descriptor(HUGGINGFACE, HuggingFaceModel)>> ELSE <<>>)
    \o (IF e.openai THEN <<Descriptor(OPENAI, OpenAIModel)>> ELSE <<>>)
    \o (IF e.perplexity = "or" THEN <<Descriptor(OPENROUTER, PerplexityOnOpenRouter)>>
        ELSE IF e.perplexity = "direct" THEN <<Descriptor(PERPLEXITY, PerplexityDirect)>>
        ELSE <<>>)

\* orderMap.has(name) ? orderMap.get(name) : Number.MAX_SAFE_INTEGER.  The Map
\* keeps the last index of a repeated name; Len(preferredOrder) stands for
\* MAX_SAFE_INTEGER, being above every index.
PreferredRank(preferredOrder, name) ==
    IF \E i \in 1..Len(preferredOrder) : preferredOrder[i] = name
    THEN (CHOOSE i \in 1..Len(preferredOrder) :
            /\ preferredOrder[i] = name
            /\ \A j \in (i + 1)..Len(preferredOrder) : preferredOrder[j] # name) - 1
    ELSE Len(preferredOrder)

\* a reordering that keeps only the providers named in preferredOrder
getAvailableProviders_OnlyPreferred(e, preferredOrder) ==
    LET providers == DefaultProviders(e)
        named == SeqFilter(providers,
                           [i \in 1..Len(providers) |->
                               \E j \in 1..Len(preferredOrder) :
                                   preferredOrder[j] = providers[i].name])
    IN  IF Len(preferredOrder) = 0 THEN providers
        ELSE StableSort(named, [i \in 1..Len(named) |->
                                   PreferredRank(preferredOrder, named[i].name)])

getAvailableProviders(e, preferredOrder) ==
    LET providers == DefaultProviders(e)
    IN  IF Len(preferredOrder) = 0 THEN providers
        ELSE StableSort(providers,
                        [i \in 1..Len(providers) |->
                            PreferredRank(preferredOrder, providers[i].name)])

\* the providers array of getMultiProviderResponses
ConsensusProviders(e) ==
    (IF e.gemini = "or"
     THEN <<[name |-> OPENROUTER, model |-> GeminiOnOpenRouter, priority |-> 1]>>
     ELSE IF e.gemini = "direct"
     THEN <<[name |-> GEMINI, model |-> GeminiDirect, priority |-> 1]>>
     ELSE <<>>)
    \o (IF e.anthropic = "or"
        THEN <<[name |-> OPENROUTER, model |-> ClaudeOnOpenRouter, priority |-> 2]>>
        ELSE <<>>)
    \o (IF e.groq THEN <<[name |-> GROQ, model |-> GroqModel, priority |-> 3]>> ELSE <<>>)
    \o (IF e.openai THEN <<[name |-> OPENAI, model |-> OpenAIModel, priority |-> 4]>>
        ELSE <<>>)


(***************************************************************************)
(* services/consensusAI.js: synthesis of the collected responses.          *)
(***************************************************************************)
Response(provider, model, content, priority) ==
    [provider |-> provider, model |-> model, content |-> content,
     success |-> TRUE, priority |-> priority]

\* responses.map(parse).filter(Boolean): the parsed objects, in order
ParsedObjects(responses) ==
    LET p == [i \in 1..Len(responses) |-> ParseResponse(responses[i].content)]
        kept == SeqFilter(p, [i \in 1..Len(p) |-> p[i].ok])
    IN  [i \in 1..Len(kept) |-> kept[i].obj]

\* one more vote for value in the tally of one key: the entry keyed by the
\* value's serialisation is created on first sight, then counted
TallyVote(entries, value) ==
    LET valueStr == JsonStringify(value)
    IN  IF \E i \in 1..Len(entries) : entries[i].valueStr = valueStr
        THEN [i \in 1..Len(entries) |->
                IF entries[i].valueStr = valueStr
                THEN [entries[i] EXCEPT !.count = @ + 1]
                ELSE entries[i]]
        ELSE Append(entries, [valueStr |-> valueStr, value |-> value, count |-> 1])

RECURSIVE FieldVotes(_, _)
\* fieldVotes[key] after the counting loop, its properties in creation order
FieldVotes(parsed, key) ==
    IF parsed = <<>> THEN <<>>
    ELSE LET before == FieldVotes(SubSeq(parsed, 1, Len(parsed) - 1), key)
             obj == parsed[Len(parsed)]
         IN  IF key \in DOMAIN obj THEN TallyVote(before, obj[key]) ELSE before

\* Object.values(fieldVotes[key]): integer-index keys first, ascending, then
\* the other keys in creation order
ObjectValues(entries) ==
    LET isIdx == [i \in 1..Len(entries) |-> IsArrayIndexKey(entries[i].valueStr)]
        idx == SeqFilter(entries, isIdx)
        others == SeqFilter(entries, [i \in 1..Len(entries) |-> ~isIdx[i]])
    IN  StableSort(idx, [i \in 1..Len(idx) |-> ParseNat(idx[i].valueStr)]) \o others

\* votes.sort((a, b) => b.count - a.count)
SortedVotes(entries) ==
    LET votes == ObjectValues(entries)
    IN  StableSort(votes, [i \in 1..Len(votes) |-> 0 - votes[i].count])

ObservedKeys(parsed) == UNION {DOMAIN parsed[i] : i \in 1..Len(parsed)}

\* whether the selection loop assigns merged[key]
KeySelected(parsed, key) ==
    LET votes == SortedVotes(FieldVotes(parsed, key))
    IN  \/ votes[1].count >= 2
        \/ Len(parsed) = 1
        \/ key \in DOMAIN parsed[1]

\* a selection that always takes the top entry of the tally
SelectedValue_AlwaysTopVote(parsed, key) ==
    SortedVotes(FieldVotes(parsed, key))[1].value

\* the value the selection loop assigns to merged[key]
SelectedValue(parsed, key) ==
    LET votes == SortedVotes(FieldVotes(parsed, key))
    IN  IF votes[1].count >= 2 \/ Len(parsed) = 1
        THEN votes[1].value
        ELSE parsed[1][key]

\* typeof item === 'string' ? item : JSON.stringify(item)
ItemKey(item) == IF item.t = "str" THEN item.s ELSE JsonStringify(item)

RECURSIVE UniqueItems(_)
\* the items whose key was not seen before, in order
UniqueItems(items) ==
    IF items = <<>> THEN <<>>
    ELSE LET front == SubSeq(items, 1, Len(items) - 1)
             last == items[Len(items)]
         IN  IF \E i \in 1..Len(front) : ItemKey(front[i]) = ItemKey(last)
             THEN UniqueItems(front)
             ELSE Append(UniqueItems(front), last)

\* parsed.map(p => p[key]).filter(Array.isArray).flat()
AllItems(parsed, key) ==
    LET isArr == [i \in 1..Len(parsed) |->
                    key \in DOMAIN parsed[i] /\ parsed[i][key].t = "arr"]
        arrs == SeqFilter(parsed, isArr)
    IN  Flatten([i \in 1..Len(arrs) |-> arrs[i][key].items])

\* merged, after the selection loop and the array-union loop
MergedObject(parsed) ==
    [key \in {k \in ObservedKeys(parsed) : KeySelected(parsed, k)} |->
        LET v == SelectedValue(parsed, key)
        IN  IF v.t = "arr" THEN Arr(UniqueItems(AllItems(parsed, key))) ELSE v]

Providers(responses) == [i \in 1..Len(responses) |-> responses[i].provider]
Models(responses) == [i \in 1..Len(responses) |-> responses[i].model]

ConsensusValue(content, hasParsed, parsed, providers, models, strategy) ==
    [content |-> content, hasParsed |-> hasParsed, parsed |-> parsed,
     providers |-> providers, models |-> models, consensus |-> strategy]

synthesizeJsonConsensus(responses) ==
    LET parsed == ParsedObjects(responses)
    IN  IF Len(parsed) = 0
        THEN ConsensusValue(responses[1].content, FALSE, NoObject,
                            Providers(responses), Models(responses), "fallback")
        ELSE ConsensusValue(PrettyPrint(MergedObject(parsed)), TRUE,
                            MergedObject(parsed),
                            Providers(responses), Models(responses),
                            IF Len(parsed) > 1 THEN "multi-provider" ELSE "single")

synthesizeTextConsensus(responses) ==
    IF Len(responses) = 1
    THEN ConsensusValue(responses[1].content, FALSE, NoObject,
                        <<responses[1].provider>>, <<responses[1].model>>, "single")
    ELSE ConsensusValue(responses[1].content, FALSE, NoObject,
                        Providers(responses), Models(responses), "validated")

\* whether synthesizeConsensus throws 'No successful responses from any provider'
SynthesisThrows(responses) == Len(responses) = 0

\* a synthesis without the single-response case
synthesizeConsensus_NoSingleCase(responses, sectionType) ==
    IF sectionType = "json"
    THEN synthesizeJsonConsensus(responses)
    ELSE synthesizeTextConsensus(responses)

\* synthesizeConsensus(responses, sectionType), for a non-empty responses
synthesizeConsensus(responses, sectionType) ==
    IF Len(responses) = 1
    THEN ConsensusValue(responses[1].content, FALSE, NoObject,
                        <<responses[1].provider>>, <<responses[1].model>>, "single")
    ELSE IF sectionType = "json"
         THEN synthesizeJsonConsensus(responses)
         ELSE synthesizeTextConsensus(responses)

(***************************************************************************)
(* config/aiProvider.js: transport adapters, seen from the orchestrators.  *)
(* One adapter call is one step: it succeeds with a text, fails with an    *)
(* error of some class, or never settles.                                  *)
(***************************************************************************)
\* how generateAIResponse classifies err.message
FailureClasses == {"rate", "auth", "other"}

\* model || provider.model
RequestedModel(modelOpt, provider) == IF modelOpt # NoModel THEN modelOpt ELSE provider.model

\* the credential callOpenRouter picks for the requested model, by format:
\* PERPLEXITY_API_KEY for a perplexity model when it is an OpenRouter key,
\* ANTHROPIC || OPENROUTER || GEMINI for perplexity and anthropic/claude
\* models, GEMINI_API_KEY otherwise
OpenRouterKey(e, model) ==
    IF model = PerplexityOnOpenRouter /\ e.perplexity = "or" THEN "or"
    ELSE IF model \in {PerplexityOnOpenRouter, ClaudeOnOpenRouter}
         THEN (IF e.anthropic # "none" THEN e.anthropic ELSE e.gemini)
         ELSE e.gemini

\* whether the adapter throws before any request is sent: callOpenRouter
\* without an OpenRouter-format key, callGemini without a direct Gemini key,
\* the others without their key
AdapterUnavailable(e, name, model) ==
    IF name = OPENROUTER THEN OpenRouterKey(e, model) # "or"
    ELSE IF name = GEMINI THEN e.gemini # "direct"
    ELSE IF name = GROQ THEN ~e.groq
    ELSE IF name = HUGGINGFACE THEN ~e.huggingface
    ELSE IF name = OPENAI THEN ~e.openai
    ELSE e.perplexity = "none"

\* the class of that error: 'OpenRouter API key ...' and '... API key not
\* configured' contain "API key"; '... client not available' does not
UnavailableClass(name) ==
    IF name \in {OPENROUTER, HUGGINGFACE, PERPLEXITY} THEN "auth" ELSE "other"

\* adapters that await a bare fetch(): no timeout, no abort signal
AwaitsBareFetch(name) == name \in {OPENROUTER, HUGGINGFACE, PERPLEXITY}

\* what one adapter call contacts: the adapter and, for OpenRouter, the
\* requested model (the other adapters take their model from the environment)
Target(name, model) ==
    [name |-> name, model |-> IF name = OPENROUTER THEN model ELSE "env"]

(***************************************************************************)
(* config/aiProvider.js: generateAIResponse, one record per call.          *)
(***************************************************************************)
IdleCall ==
    [status |-> "idle", providers |-> <<>>, modelOpt |-> NoModel, pos |-> 0,
     contacted |-> <<>>, content |-> NoAnswer, provider |-> "none",
     model |-> "none", error |-> "none"]

\* entry of generateAIResponse up to the first adapter call
BeginCall(e, preferredProviders, modelOpt) ==
    LET providers == getAvailableProviders(e, preferredProviders)
    IN  IF Len(providers) = 0
        THEN [IdleCall EXCEPT !.status = "noproviders", !.modelOpt = modelOpt]
        ELSE [IdleCall EXCEPT !.status = "running", !.providers = providers,
                              !.modelOpt = modelOpt, !.pos = 1]

CurrentProvider(c) == c.providers[c.pos]

CurrentTarget(c) ==
    Target(CurrentProvider(c).name, RequestedModel(c.modelOpt, CurrentProvider(c)))

\* one line of the call's history: the adapter call made and how it ended
Contact(c, outcome, text) ==
    [target |-> CurrentTarget(c), outcome |-> outcome, text |-> text]

\* a success that stores the answer but does not leave the loop
CallAfterSuccess_NoReturn(c, content) ==
    IF c.pos < Len(c.providers)
    THEN [c EXCEPT !.contacted = Append(@, Contact(c, "returned", content)),
                   !.content = content, !.pos = @ + 1]
    ELSE [c EXCEPT !.status = "ok",
                   !.contacted = Append(@, Contact(c, "returned", content)),
                   !.content = content,
                   !.provider = CurrentProvider(c).name,
                   !.model = RequestedModel(c.modelOpt, CurrentProvider(c))]

\* the adapter returned: return { content, provider, model }
CallAfterSuccess(c, content) ==
    [c EXCEPT !.status = "ok",
              !.contacted = Append(@, Contact(c, "returned", content)),
              !.content = content,
              !.provider = CurrentProvider(c).name,
              !.model = RequestedModel(c.modelOpt, CurrentProvider(c))]

\* an authentication error that ends the chain
ContinuesAfter_AuthAborts(class) == class # "auth"

\* the catch block: a rate-limit error continues, an authentication error
\* continues, any other error continues
ContinuesAfter(class) ==
    IF class = "rate" THEN TRUE
    ELSE IF class = "auth" THEN TRUE
    ELSE TRUE

\* the adapter threw: next provider, or 'All AI providers failed' after the
\* last one.  lastError is read only after the loop, so it is recorded when
\* the loop ends.
CallAfterFailure(c, class) ==
    IF ContinuesAfter(class) /\ c.pos < Len(c.providers)
    THEN [c EXCEPT !.contacted = Append(@, Contact(c, "failed", NoAnswer)),
                   !.pos = @ + 1]
    ELSE [c EXCEPT !.contacted = Append(@, Contact(c, "failed", NoAnswer)),
                   !.status = "failed", !.error = class]

\* the adapter's promise never settles
CallAfterHang(c) ==
    [c EXCEPT !.status = "hung",
              !.contacted = Append(@, Contact(c, "pending", NoAnswer))]

Settled(c) == c.status \in {"ok", "failed", "noproviders"}

CallIds == 0..4

\* texts a provider may answer with in a request
AnemiaObject == [probable_disease |-> Str(<<"Anemia">>)]
DiabetesObject == [probable_disease |-> Str(<<"Diabetes">>)]
ProviderTexts ==
    {Text("compact", AnemiaObject), Text("wrapped", DiabetesObject),
     Text("prose", NoObject)}

AdapterSucceeds(i, content) ==
    /\ pc \in {"awaiting", "fallback"}
    /\ calls[i].status = "running"
    /\ ~AdapterUnavailable(env, CurrentProvider(calls[i]).name,
                           RequestedModel(calls[i].modelOpt, CurrentProvider(calls[i])))
    /\ calls' = [calls EXCEPT ![i] = CallAfterSuccess(@, content)]
    /\ UNCHANGED <<env, req, pc, consensus, result, out, jsonIn, jsonOut, willAnswer, settled, report, adapter, memoryCache, lookups, writes>>

AdapterFails(i, class) ==
    /\ pc \in {"awaiting", "fallback"}
    /\ calls[i].status = "running"
    /\ LET name == CurrentProvider(calls[i]).name
           model == RequestedModel(calls[i].modelOpt, CurrentProvider(calls[i]))
       IN  AdapterUnavailable(env, name, model) => class = UnavailableClass(name)
    /\ calls' = [calls EXCEPT ![i] = CallAfterFailure(@, class)]
    /\ UNCHANGED <<env, req, pc, consensus, result, out, jsonIn, jsonOut, willAnswer, settled, report, adapter, memoryCache, lookups, writes>>

AdapterHangs(i) ==
    /\ pc \in {"awaiting", "fallback"}
    /\ calls[i].status = "running"
    /\ AwaitsBareFetch(CurrentProvider(calls[i]).name)
    /\ ~AdapterUnavailable(env, CurrentProvider(calls[i]).name,
                           RequestedModel(calls[i].modelOpt, CurrentProvider(calls[i])))
    /\ calls' = [calls EXCEPT ![i] = CallAfterHang(@)]
    /\ UNCHANGED <<env, req, pc, consensus, result, out, jsonIn, jsonOut, willAnswer, settled, report, adapter, memoryCache, lookups, writes>>


(***************************************************************************)
(* Values of the variables before anything was assigned.                   *)
(***************************************************************************)
NoConsensus ==
    [status |-> "none", error |-> "none",
     value |-> ConsensusValue(NoAnswer, FALSE, NoObject, <<>>, <<>>, "none"),
     validatedBy |-> 0]

NoJsonOut == [done |-> FALSE, sectionType |-> "none", threw |-> FALSE,
              value |-> NoConsensus.value]

\* interpretReport's locals: result and its fields, name, aiResponse
NoResult ==
    [defined |-> FALSE, obj |-> NoObject, name |-> <<>>, aiProvider |-> <<>>,
     aiModel |-> <<>>, consensusValidated |-> FALSE, validatedBy |-> 0,
     aiResponse |-> "undefined"]

NoRecord == [name |-> <<>>, aiProvider |-> "undefined", aiModel |-> "undefined"]

\* what the request has produced: the HTTP response and the stored documents
NoOutcome ==
    [status |-> "pending", http |-> 0, thrown |-> "none", message |-> "none",
     diseaseSaved |-> FALSE, historySaved |-> FALSE, record |-> NoRecord]

\* interpretReport's locals after the answer: the text of the upload, the AI's
\* abnormal_values, the findings, the enrichment sections
\* no adapter call under way
IdleAdapter ==
    [name |-> "none", model |-> "none", temperature |-> 0, maxTokens |-> 0,
     status |-> "idle", models |-> <<>>, pos |-> 0, requests |-> <<>>,
     content |-> <<>>, error |-> "none", thrown |-> "none"]

NoReport ==
    [parsedText |-> <<>>, abnormal_values |-> [isArray |-> FALSE, items |-> <<>>],
     fallbackFindings |-> <<>>,
     abnormalFindings |-> <<>>, referenceRanges |-> <<>>,
     enrichedFindings |-> <<>>, failed |-> {}, medicationDetails |-> <<>>,
     globalStatistics |-> "none", videoResources |-> "none",
     specialistProviders |-> "none"]

AllKeysEnv ==
    [gemini |-> "direct", anthropic |-> "or", groq |-> TRUE,
     huggingface |-> TRUE, openai |-> TRUE, perplexity |-> "direct"]

(***************************************************************************)
(* services/consensusAI.js: getMultiProviderResponses, getConsensusResponse*)
(***************************************************************************)
\* the successes taken in the order in which the calls completed
CollectResponses_InCompletionOrder(cs, providers) ==
    LET done == SeqFilter(settled, [k \in 1..Len(settled) |->
                                      /\ settled[k] \in 1..Len(providers)
                                      /\ cs[settled[k]].status = "ok"])
    IN  [k \in 1..Len(done) |->
           Response(providers[done[k]].name, providers[done[k]].model,
                    cs[done[k]].content, providers[done[k]].priority)]

\* results.map(...).filter(r => r.success).sort((a, b) => a.priority - b.priority)
CollectResponses(cs, providers) ==
    LET all == [i \in 1..Len(providers) |->
                  Response(providers[i].name, providers[i].model, cs[i].content,
                           providers[i].priority)]
        ok == SeqFilter(all, [i \in 1..Len(providers) |-> cs[i].status = "ok"])
    IN  StableSort(ok, [i \in 1..Len(ok) |-> ok[i].priority])

\* a threshold test that lets one missing response pass
InsufficientProviders_OffByOne(n, minProviders) == n + 1 < minProviders

\* responses.length < minProviders
InsufficientProviders(n, minProviders) == n < minProviders

\* getConsensusResponse after getMultiProviderResponses returned
ConsensusOutcome(responses, sectionType, minProviders) ==
    IF InsufficientProviders(Len(responses), minProviders)
    THEN [NoConsensus EXCEPT !.status = "threw", !.error = "Insufficient providers responded"]
    ELSE IF SynthesisThrows(responses)
    THEN [NoConsensus EXCEPT !.status = "threw",
                             !.error = "No successful responses from any provider"]
    ELSE [status |-> "returned", error |-> "none",
          value |-> synthesizeConsensus(responses, sectionType),
          validatedBy |-> Len(responses)]

\* getMultiProviderResponses up to Promise.allSettled: one generateAIResponse
\* per consensus provider, all started before any is awaited
StartConsensus ==
    /\ pc = "start"
    /\ LET providers == ConsensusProviders(env)
       IN  IF Len(providers) = 0
           THEN /\ consensus' = [NoConsensus EXCEPT !.status = "threw",
                                                   !.error = "No AI providers configured"]
                /\ pc' = "consensusSettled"
                /\ calls' = calls
           ELSE /\ calls' = [i \in CallIds |->
                               IF i \in 1..Len(providers)
                               THEN BeginCall(env, <<providers[i].name>>, providers[i].model)
                               ELSE calls[i]]
                /\ pc' = "awaiting"
                /\ consensus' = consensus
    /\ UNCHANGED <<env, req, result, out, jsonIn, jsonOut, willAnswer, settled, report, adapter, memoryCache, lookups, writes>>

\* Promise.allSettled resolves once every per-provider promise has settled;
\* then getConsensusResponse runs to its return or throw
JoinConsensus ==
    /\ pc = "awaiting"
    /\ LET providers == ConsensusProviders(env)
       IN  /\ \A i \in 1..Len(providers) : Settled(calls[i])
           /\ consensus' = ConsensusOutcome(CollectResponses(calls, providers),
                                            req.sectionType, req.minProviders)
    /\ pc' = "consensusSettled"
    /\ UNCHANGED <<env, req, calls, result, out, jsonIn, jsonOut, willAnswer, settled, report, adapter, memoryCache, lookups, writes>>

(***************************************************************************)
(* controllers/aiController.js: interpretReport.                           *)
(***************************************************************************)
Unknown == <<"Unknown">>

\* normalizeDiseaseName(result.probable_disease) || 'Unknown'
DiseaseName(obj) ==
    IF "probable_disease" \in DOMAIN obj /\ obj["probable_disease"].t = "str"
       /\ obj["probable_disease"].s # <<>>
    THEN obj["probable_disease"].s
    ELSE Unknown

\* aiResponse.parsed || safeJsonParse(aiResponse.content) || {}
ConsensusResultObject(value) ==
    IF value.hasParsed THEN value.parsed
    ELSE IF safeJsonParse(value.content).ok THEN safeJsonParse(value.content).obj
    ELSE NoObject

\* the try block after getConsensusResponse returned
ResultFromConsensus(c) ==
    [defined |-> TRUE,
     obj |-> ConsensusResultObject(c.value),
     name |-> DiseaseName(ConsensusResultObject(c.value)),
     aiProvider |-> c.value.providers,
     aiModel |-> c.value.models,
     consensusValidated |-> c.validatedBy > 1,
     validatedBy |-> c.validatedBy,
     aiResponse |-> "consensus"]

\* the catch block after the fallback generateAIResponse returned; aiResponse
\* was never assigned
ResultFromFallback(fallback) ==
    [defined |-> TRUE,
     obj |-> IF safeJsonParse(fallback.content).ok
             THEN safeJsonParse(fallback.content).obj ELSE NoObject,
     name |-> DiseaseName(IF safeJsonParse(fallback.content).ok
                          THEN safeJsonParse(fallback.content).obj ELSE NoObject),
     aiProvider |-> <<fallback.provider>>,
     aiModel |-> <<fallback.model>>,
     consensusValidated |-> FALSE,
     validatedBy |-> 1,
     aiResponse |-> "undefined"]

\* an outer catch that answers every error with the generic message
ErrorMessage_AlwaysGeneric(thrown) == "AI interpretation failed"

\* the outer catch: the message answered for a thrown error
ErrorMessage(thrown) ==
    IF thrown = "No AI providers configured" THEN "No AI providers configured"
    ELSE IF thrown = "All AI providers failed" THEN "All AI providers failed"
    ELSE "AI interpretation failed"

Failure(o, thrown) ==
    [o EXCEPT !.status = "error", !.http = 500, !.thrown = thrown,
              !.message = ErrorMessage(thrown)]

UseConsensus ==
    /\ pc = "consensusSettled"
    /\ req.op = "interpret"
    /\ consensus.status = "returned"
    /\ result' = ResultFromConsensus(consensus)
    /\ pc' = "assembled"
    /\ UNCHANGED <<env, req, calls, consensus, out, jsonIn, jsonOut, willAnswer, settled, report, adapter, memoryCache, lookups, writes>>

\* consensus threw: generateAIResponse with preferredProviders
\* ['openrouter', 'groq'] and no model
StartFallback ==
    /\ pc = "consensusSettled"
    /\ req.op = "interpret"
    /\ consensus.status = "threw"
    /\ LET c == BeginCall(env, <<OPENROUTER, GROQ>>, NoModel)
       IN  /\ calls' = [calls EXCEPT ![0] = c]
           /\ IF c.status = "noproviders"
              THEN /\ out' = Failure(out, "No AI providers configured")
                   /\ pc' = "done"
              ELSE /\ out' = out
                   /\ pc' = "fallback"
    /\ UNCHANGED <<env, req, consensus, result, jsonIn, jsonOut, willAnswer, settled, report, adapter, memoryCache, lookups, writes>>

UseFallback ==
    /\ pc = "fallback"
    /\ calls[0].status = "ok"
    /\ result' = ResultFromFallback(calls[0])
    /\ pc' = "assembled"
    /\ UNCHANGED <<env, req, calls, consensus, out, jsonIn, jsonOut, willAnswer, settled, report, adapter, memoryCache, lookups, writes>>

FallbackExhausted ==
    /\ pc = "fallback"
    /\ calls[0].status = "failed"
    /\ out' = Failure(out, "All AI providers failed")
    /\ pc' = "done"
    /\ UNCHANGED <<env, req, calls, consensus, result, jsonIn, jsonOut, willAnswer, settled, report, adapter, memoryCache, lookups, writes>>

\* whether building the argument of Disease.create throws: it reads
\* aiResponse.provider and aiResponse.model
CreateArgumentThrows(r) == r.aiResponse = "undefined"

\* the stored attribution: aiResponse.provider and aiResponse.model, which the
\* value returned by getConsensusResponse does not have
StoredRecord(r) == [name |-> r.name, aiProvider |-> "undefined", aiModel |-> "undefined"]

\* Disease.create(...)
CreateDisease(dbOk) ==
    /\ pc = "assembled"
    /\ IF CreateArgumentThrows(result)
       THEN /\ dbOk
            /\ out' = Failure(out, "TypeError")
            /\ pc' = "done"
       ELSE IF dbOk
       THEN /\ out' = [out EXCEPT !.diseaseSaved = TRUE, !.record = StoredRecord(result)]
            /\ pc' = "saved"
       ELSE /\ out' = Failure(out, "database error")
            /\ pc' = "done"
    /\ UNCHANGED <<env, req, calls, consensus, result, jsonIn, jsonOut, willAnswer, settled, report, adapter, memoryCache, lookups, writes>>

\* History.create(...) and res.json(...)
SaveHistoryAndRespond(dbOk) ==
    /\ pc = "saved"
    /\ out' = IF dbOk
              THEN [out EXCEPT !.status = "success", !.http = 200, !.historySaved = TRUE]
              ELSE Failure(out, "database error")
    /\ pc' = "done"
    /\ UNCHANGED <<env, req, calls, consensus, result, jsonIn, jsonOut, willAnswer, settled, report, adapter, memoryCache, lookups, writes>>

(***************************************************************************)
(* Spec: one interpretReport request.                                      *)
(***************************************************************************)
ConfiguredEnvs == {e \in Envs : KeyCount(e) <= MaxKeys}

\* no provider has an answer fixed in advance
NoneAnswers == [name \in ProviderNames |-> FALSE]

NoJsonIn == [i \in 1..Len(ConsensusProviders(AllKeysEnv)) |-> NoAnswer]

Init ==
    /\ env \in ConfiguredEnvs
    /\ req = [op |-> "interpret", sectionType |-> "json", minProviders |-> 1]
    /\ pc = "start"
    /\ calls = [i \in CallIds |-> IdleCall]
    /\ consensus = NoConsensus
    /\ result = NoResult
    /\ out = NoOutcome
    /\ jsonIn = NoJsonIn
    /\ jsonOut = NoJsonOut
    /\ willAnswer = NoneAnswers
    /\ settled = <<>>
    /\ adapter = IdleAdapter
    /\ memoryCache = <<>>
    /\ lookups = <<>>
    /\ writes = <<>>
    /\ report = NoReport

AdapterSettles ==
    \E i \in CallIds :
        \/ \E content \in ProviderTexts : AdapterSucceeds(i, content)
        \/ \E class \in FailureClasses : AdapterFails(i, class)

AdapterNeverSettles == \E i \in CallIds : AdapterHangs(i)

Next ==
    \/ StartConsensus
    \/ AdapterSettles
    \/ AdapterNeverSettles
    \/ JoinConsensus
    \/ UseConsensus
    \/ StartFallback
    \/ UseFallback
    \/ FallbackExhausted
    \/ \E dbOk \in BOOLEAN : CreateDisease(dbOk)
    \/ \E dbOk \in BOOLEAN : SaveHistoryAndRespond(dbOk)

Spec == Init /\ [][Next]_vars

(***************************************************************************)
(* SpecConsensus: one direct getConsensusResponse call, any options.       *)
(***************************************************************************)
SectionTypes == {"json", "text"}

InitConsensus ==
    /\ env \in ConfiguredEnvs
    /\ req \in [op : {"consensus"}, sectionType : SectionTypes,
                minProviders : 0..MaxMinProviders]
    /\ pc = "start"
    /\ calls = [i \in CallIds |-> IdleCall]
    /\ consensus = NoConsensus
    /\ result = NoResult
    /\ out = NoOutcome
    /\ jsonIn = NoJsonIn
    /\ jsonOut = NoJsonOut
    /\ willAnswer = NoneAnswers
    /\ settled = <<>>
    /\ adapter = IdleAdapter
    /\ memoryCache = <<>>
    /\ lookups = <<>>
    /\ writes = <<>>
    /\ report = NoReport

NextConsensus ==
    \/ StartConsensus
    \/ AdapterSettles
    \/ AdapterNeverSettles
    \/ JoinConsensus

SpecConsensus == InitConsensus /\ [][NextConsensus]_vars


(***************************************************************************)
(* SpecJson: synthesizeConsensus on bounded lists of successful responses. *)
(* Each of the four consensus providers either gave no successful answer   *)
(* or answered with one text; the responses are the answers in priority    *)
(* order, as getMultiProviderResponses returns them.                       *)
(***************************************************************************)
JsonKeys == {"a"}

\* scalar answers: the numbers 1..MaxNum and the string "1"
Scalars == {Num(n) : n \in 1..MaxNum} \cup {Str(<<"1">>)}

\* items of sequence answers: two numbers and the string "1"
Items == {Num(1), Num(2), Str(<<"1">>)}

JsonValues ==
    Scalars \cup {Arr(items) : items \in UNION {[1..k -> Items] : k \in 0..MaxArrayLen}}

JsonObjects == UNION {[K -> JsonValues] : K \in SUBSET JsonKeys}

AnswerTexts == {Text("compact", o) : o \in JsonObjects} \cup {Text("prose", NoObject)}

\* the successful responses among the answers of the consensus providers
ResponsesOf(answers) ==
    LET slots == ConsensusProviders(AllKeysEnv)
        all == [i \in 1..Len(slots) |->
                  Response(slots[i].name, slots[i].model, answers[i], slots[i].priority)]
    IN  SeqFilter(all, [i \in 1..Len(slots) |-> answers[i] # NoAnswer])

InitJson ==
    /\ env = AllKeysEnv
    /\ req = [op |-> "synthesize", sectionType |-> "none", minProviders |-> 0]
    /\ pc = "json"
    /\ calls = [i \in CallIds |-> IdleCall]
    /\ consensus = NoConsensus
    /\ result = NoResult
    /\ out = NoOutcome
    /\ jsonIn \in [1..Len(ConsensusProviders(AllKeysEnv)) -> AnswerTexts \cup {NoAnswer}]
    /\ jsonOut = NoJsonOut
    /\ willAnswer = NoneAnswers
    /\ settled = <<>>
    /\ adapter = IdleAdapter
    /\ memoryCache = <<>>
    /\ lookups = <<>>
    /\ writes = <<>>
    /\ report = NoReport

\* synthesizeConsensus(responses, sectionType)
Synthesize(sectionType) ==
    /\ pc = "json"
    /\ pc' = "jsonDone"
    /\ jsonOut' =
         IF SynthesisThrows(ResponsesOf(jsonIn))
         THEN [done |-> TRUE, sectionType |-> sectionType, threw |-> TRUE,
               value |-> NoConsensus.value]
         ELSE [done |-> TRUE, sectionType |-> sectionType, threw |-> FALSE,
               value |-> synthesizeConsensus(ResponsesOf(jsonIn), sectionType)]
    /\ UNCHANGED <<env, req, calls, consensus, result, out, jsonIn, willAnswer, settled, report, adapter, memoryCache, lookups, writes>>

SynthesizeJson == Synthesize("json")
SynthesizeText == Synthesize("text")

NextJson == SynthesizeJson \/ SynthesizeText

SpecJson == InitJson /\ [][NextJson]_vars

(***************************************************************************)
(* SpecOrder: one getConsensusResponse call in which the answer of every    *)
(* provider is fixed in advance (a text, or no answer: every request to it  *)
(* fails) and the concurrent generateAIResponse calls advance in any order. *)
(* settled records the order in which the calls complete.                   *)
(***************************************************************************)
\* the text a provider answers with when it answers
AnswerOf(name) == Text("compact", [probable_disease |-> Str(<<name>>)])

InitOrder ==
    /\ env \in ConfiguredEnvs
    /\ Len(ConsensusProviders(env)) >= 2
    /\ req \in [op : {"consensus"}, sectionType : SectionTypes, minProviders : {1}]
    /\ pc = "start"
    /\ calls = [i \in CallIds |-> IdleCall]
    /\ consensus = NoConsensus
    /\ result = NoResult
    /\ out = NoOutcome
    /\ jsonIn = NoJsonIn
    /\ jsonOut = NoJsonOut
    /\ willAnswer \in [ProviderNames -> BOOLEAN]
    /\ settled = <<>>
    /\ adapter = IdleAdapter
    /\ memoryCache = <<>>
    /\ lookups = <<>>
    /\ writes = <<>>
    /\ report = NoReport

\* one step of generateAIResponse call i: the adapter of its current provider
\* resolves with the provider's fixed answer or rejects
ProviderAnswers(i) ==
    /\ pc = "awaiting"
    /\ calls[i].status = "running"
    /\ LET provider == CurrentProvider(calls[i])
           unavailable == AdapterUnavailable(env, provider.name,
                                             RequestedModel(calls[i].modelOpt, provider))
           after == IF unavailable
                    THEN CallAfterFailure(calls[i], UnavailableClass(provider.name))
                    ELSE IF willAnswer[provider.name]
                    THEN CallAfterSuccess(calls[i], AnswerOf(provider.name))
                    ELSE CallAfterFailure(calls[i], "other")
       IN  /\ calls' = [calls EXCEPT ![i] = after]
           /\ settled' = IF Settled(after) THEN Append(settled, i) ELSE settled
    /\ UNCHANGED <<env, req, pc, consensus, result, out, jsonIn, jsonOut, willAnswer, report, adapter, memoryCache, lookups, writes>>

NextOrder ==
    \/ StartConsensus
    \/ \E i \in CallIds : ProviderAnswers(i)
    \/ JoinConsensus

SpecOrder == InitOrder /\ [][NextOrder]_vars

(***************************************************************************)
(* SpecFallback: one generateAIResponse call with any preferredProviders,   *)
(* in which every adapter request is answered by an error or by a 2xx       *)
(* response carrying any assistant text, usable or not.                     *)
(***************************************************************************)
MissingText == Text("missing", NoObject)
EmptyText == Text("empty", NoObject)
BlankText == Text("blank", NoObject)

\* the text '{}'
EmptyObjectText == Text("compact", NoObject)

\* text.trim()
Trim(text) == IF text = BlankText THEN EmptyText ELSE text

\* !text
IsFalsy(text) == text \in {MissingText, EmptyText}

\* !text || text.trim().length === 0
IsEmptyOrBlank(text) == IsFalsy(text) \/ Trim(text) = EmptyText

Rejected == [ok |-> FALSE, text |-> NoAnswer]
Resolved(text) == [ok |-> TRUE, text |-> text]

\* what an adapter makes of a 2xx response carrying the assistant text:
\* callOpenRouter and callGemini throw on a missing, empty or blank text;
\* callHuggingFace throws on a falsy generated_text and returns the trimmed
\* text otherwise; callGroq, callPerplexity and callOpenAI return
\* content || '{}'
AdapterResult(name, payload) ==
    IF name \in {OPENROUTER, GEMINI}
    THEN IF IsEmptyOrBlank(payload) THEN Rejected ELSE Resolved(payload)
    ELSE IF name = HUGGINGFACE
    THEN IF IsFalsy(payload) THEN Rejected ELSE Resolved(Trim(payload))
    ELSE Resolved(IF IsFalsy(payload) THEN EmptyObjectText ELSE payload)

\* the assistant texts a 2xx response may carry
Payloads == ProviderTexts \cup {MissingText, EmptyText, BlankText}

\* the preferredProviders options tried: every list of at most MaxPreferred
\* provider names
PreferredOrders == UNION {[1..n -> ProviderNames] : n \in 0..MaxPreferred}

InitFallback ==
    /\ env \in ConfiguredEnvs
    /\ req \in [op : {"generate"}, sectionType : {"none"}, minProviders : {0},
                preferredProviders : PreferredOrders]
    /\ pc = "start"
    /\ calls = [i \in CallIds |-> IdleCall]
    /\ consensus = NoConsensus
    /\ result = NoResult
    /\ out = NoOutcome
    /\ jsonIn = NoJsonIn
    /\ jsonOut = NoJsonOut
    /\ willAnswer = NoneAnswers
    /\ settled = <<>>
    /\ adapter = IdleAdapter
    /\ memoryCache = <<>>
    /\ lookups = <<>>
    /\ writes = <<>>
    /\ report = NoReport

\* generateAIResponse up to its first adapter call, or its throw of
\* 'No AI providers configured'
StartGenerate ==
    /\ pc = "start"
    /\ req.op = "generate"
    /\ LET c == BeginCall(env, req.preferredProviders, NoModel)
       IN  /\ calls' = [calls EXCEPT ![0] = c]
           /\ pc' = IF c.status = "noproviders" THEN "done" ELSE "fallback"
    /\ UNCHANGED <<env, req, consensus, result, out, jsonIn, jsonOut, willAnswer, settled, report, adapter, memoryCache, lookups, writes>>

\* the call after the adapter of its current provider received a 2xx response
\* carrying payload; the contact is logged with the payload
CallAfterResponse(c, payload) ==
    LET made == AdapterResult(CurrentProvider(c).name, payload)
        after == IF made.ok THEN CallAfterSuccess(c, made.text)
                 ELSE CallAfterFailure(c, "other")
        last == Len(after.contacted)
    IN  [after EXCEPT !.contacted[last] =
            [target |-> @.target, outcome |-> @.outcome, text |-> @.text,
             payload |-> payload]]

AdapterGetsResponse(payload) ==
    /\ pc = "fallback"
    /\ req.op = "generate"
    /\ calls[0].status = "running"
    /\ ~AdapterUnavailable(env, CurrentProvider(calls[0]).name,
                           RequestedModel(calls[0].modelOpt, CurrentProvider(calls[0])))
    /\ calls' = [calls EXCEPT ![0] = CallAfterResponse(@, payload)]
    /\ UNCHANGED <<env, req, pc, consensus, result, out, jsonIn, jsonOut, willAnswer, settled, report, adapter, memoryCache, lookups, writes>>

NextFallback ==
    \/ StartGenerate
    \/ \E payload \in Payloads : AdapterGetsResponse(payload)
    \/ \E class \in FailureClasses : AdapterFails(0, class)

SpecFallback == InitFallback /\ [][NextFallback]_vars

(***************************************************************************)
(* controllers/aiController.js: the text extractor.                        *)
(*                                                                         *)
(* The extractor first collapses every run of blanks and tabs of a line to *)
(* one space, so a cleaned line is a sequence of words separated by single *)
(* spaces; the word "|" is the table delimiter.  A word carries the        *)
(* character class the regular expressions tell apart.  A text made of     *)
(* several words (a test name) is the sequence of their spellings, the     *)
(* empty text is <<>>; a reference range "lo - hi" is the pair <<lo, hi>>. *)
(***************************************************************************)
\* k: "name" and "flag" and "normal" are letters only, "unit" is letters with a
\* slash, "num" is a decimal number, "range" is two numbers joined by a
\* hyphen, "pipe" is the delimiter
Word(kind, spelling) == [k |-> kind, s |-> spelling, lo |-> "", hi |-> "", last |-> ""]

\* a range word: its two numbers, and the last match of NUMBER_REGEX in it
RangeWord(spelling, lo, hi, last) ==
    [k |-> "range", s |-> spelling, lo |-> lo, hi |-> hi, last |-> last]

Pipe == Word("pipe", "|")
LettersOnly == {"name", "unit", "flag", "normal"}

\* String.prototype.toLowerCase on the spellings in use
LowerWord(spelling) ==
    CASE spelling = "Hemoglobin" -> "hemoglobin"
      [] spelling = "HEMOGLOBIN" -> "hemoglobin"
      [] spelling = "Glucose" -> "glucose"
      [] spelling = "g/dL" -> "g/dl"
      [] spelling = "Low" -> "low"
      [] spelling = "High" -> "high"
      [] spelling = "Elevated" -> "elevated"
      [] spelling = "Normal" -> "normal"
      [] spelling = "Aspirin" -> "aspirin"
      [] spelling = "Iron" -> "iron"
      [] OTHER -> spelling

\* text.toLowerCase().trim()
LowerText(text) == [i \in DOMAIN text |-> LowerWord(text[i])]

\* the substrings of FLAG_TERMS and NORMAL_REGEX a lower-cased word includes
Includes(spelling) ==
    CASE LowerWord(spelling) = "low" -> {"low"}
      [] LowerWord(spelling) = "high" -> {"high"}
      [] LowerWord(spelling) = "elevated" -> {"elevated"}
      [] LowerWord(spelling) = "normal" -> {"normal"}
      [] OTHER -> {}

\* /\d/.test(line)
HasDigit(line) == \E i \in DOMAIN line : line[i].k \in {"num", "range"}

\* line.match(FLAG_REGEX): the position of the leftmost flag word, 0 if none
FlagIndex(line) ==
    IF \E i \in DOMAIN line : line[i].k = "flag"
    THEN CHOOSE i \in DOMAIN line :
            /\ line[i].k = "flag"
            /\ \A j \in 1..(i - 1) : line[j].k # "flag"
    ELSE 0

\* NORMAL_REGEX.test(line)
HasNormal(line) == \E i \in DOMAIN line : line[i].k = "normal"

\* NORMAL_REGEX.test(word) for one spelling
IsNormalText(spelling) == Includes(spelling) \cap {"normal", "negative", "wnl"} # {}

\* line.match(RANGE_REGEX): the position of the leftmost range word, 0 if none
RangeIndex(line) ==
    IF \E i \in DOMAIN line : line[i].k = "range"
    THEN CHOOSE i \in DOMAIN line :
            /\ line[i].k = "range"
            /\ \A j \in 1..(i - 1) : line[j].k # "range"
    ELSE 0

\* `${match[1]} - ${match[2]}`
RangeText(word) == <<word.lo, word.hi>>

normalizeFlagWord(word) ==
    LET lower == Includes(word)
    IN  IF "critical" \in lower /\ "high" \in lower THEN "Critical High"
        ELSE IF "critical" \in lower /\ "low" \in lower THEN "Critical Low"
        ELSE IF lower \cap {"high", "above", "elevated"} # {} THEN "High"
        ELSE IF lower \cap {"low", "below", "reduced"} # {} THEN "Low"
        ELSE word

deriveSeverity(word) ==
    LET lower == Includes(word)
    IN  IF "critical" \in lower THEN "critical"
        ELSE IF lower \cap {"high", "above", "elevated"} # {} THEN "high"
        ELSE IF lower \cap {"low", "below", "reduced"} # {} THEN "low"
        ELSE ""

\* `${flag} value${referenceRange ? ` (reference ${referenceRange})` : ''}`
Interpretation(flag, referenceRange) == <<flag, "value">> \o referenceRange

Finding(test, value, unit, referenceRange, flagWord) ==
    [test |-> test, value |-> value, unit |-> unit,
     referenceRange |-> referenceRange,
     flag |-> normalizeFlagWord(flagWord),
     severity |-> deriveSeverity(flagWord),
     interpretation |-> Interpretation(normalizeFlagWord(flagWord), referenceRange)]

\* the spellings of a run of words
Spellings(words) == [i \in DOMAIN words |-> words[i].s]

\* line.split(/\s*\|\s*|\s{2,}|\s*:\s*/).map(p => p.trim()).filter(p => p):
\* a cleaned line has no double space, the words in use have no colon
RECURSIVE SplitParts(_, _, _)
SplitParts(line, i, part) ==
    LET closed == IF part = <<>> THEN <<>> ELSE <<part>>
    IN  IF i > Len(line) THEN closed
        ELSE IF line[i].k = "pipe" THEN closed \o SplitParts(line, i + 1, <<>>)
        ELSE SplitParts(line, i + 1, Append(part, line[i]))

NoFields == [test |-> <<>>, value |-> "", unit |-> "", referenceRange |-> <<>>]

\* one pass of the loop over the parts
IdentifyPart(f, part, flagWord) ==
    IF Len(part) = 1 /\ part[1].k = "num" /\ f.value = ""
    THEN [f EXCEPT !.value = part[1].s]
    ELSE IF RangeIndex(part) # 0 /\ f.referenceRange = <<>>
    THEN [f EXCEPT !.referenceRange = RangeText(part[RangeIndex(part)])]
    ELSE IF Len(part) = 1 /\ part[1].k \in LettersOnly /\ f.unit = "" /\ f.value # ""
    THEN [f EXCEPT !.unit = part[1].s]
    ELSE IF Len(part) = 1 /\ part[1].k = "flag" /\ part[1].s = flagWord
    THEN f
    ELSE IF f.value = "" /\ f.referenceRange = <<>>
    THEN [f EXCEPT !.test = f.test \o Spellings(part)]
    ELSE f

RECURSIVE IdentifyParts(_, _, _, _)
IdentifyParts(parts, i, f, flagWord) ==
    IF i > Len(parts) THEN f
    ELSE IdentifyParts(parts, i + 1, IdentifyPart(f, parts[i], flagWord), flagWord)

\* (prevLine + ' ' + nextLine).toLowerCase().match(/(?:ref|reference|normal|
\* range)[:\s]*(\d+\.?\d*)\s*[-–—to]\s*(\d+\.?\d*)/i): a word ending in
\* "normal" followed by a range word
ContextRange(prevLine, nextLine) ==
    LET context == prevLine \o nextLine
        hits == {i \in 1..(Len(context) - 1) :
                    context[i].k = "normal" /\ context[i + 1].k = "range"}
    IN  IF hits = {} THEN <<>>
        ELSE RangeText(context[(CHOOSE i \in hits : \A j \in hits : i <= j) + 1])

\* extractTestDataFromLine(line, nextLine, prevLine): <<>> for null.  No word
\* in use has a bracket, so the bracketed-range pattern never matches.
extractTestDataFromLine(line, nextLine, prevLine) ==
    IF FlagIndex(line) = 0 THEN <<>>
    ELSE LET flagWord == line[FlagIndex(line)].s
             f == IdentifyParts(SplitParts(line, 1, <<>>), 1, NoFields, flagWord)
             referenceRange == IF f.referenceRange # <<>> THEN f.referenceRange
                               ELSE ContextRange(prevLine, nextLine)
         IN  IF IsNormalText(flagWord) THEN <<>>
             ELSE IF f.test = <<>> \/ f.value = "" THEN <<>>
             ELSE <<Finding(f.test, f.value, f.unit, referenceRange, flagWord)>>

\* the sequence without its i-th element
RemoveAt(seq, i) == SubSeq(seq, 1, i - 1) \o SubSeq(seq, i + 1, Len(seq))

\* working.match(NUMBER_REGEX): the position of the last word holding a number
LastNumberIndex(working) ==
    IF HasDigit(working)
    THEN CHOOSE i \in DOMAIN working :
            /\ working[i].k \in {"num", "range"}
            /\ \A j \in (i + 1)..Len(working) : working[j].k \notin {"num", "range"}
    ELSE 0

\* parseAbnormalRow(row, fallbackTest): <<>> for null.  No word in use has a
\* bracket or a "ref:" label, so patterns 2 and 3 never match.
parseAbnormalRow(row, fallbackTest) ==
    IF FlagIndex(row) = 0 THEN <<>>
    ELSE LET flagWord == row[FlagIndex(row)].s
             \* row.slice(0, flagMatch.index).trim()
             beforeFlag == SubSeq(row, 1, FlagIndex(row) - 1)
             r == RangeIndex(beforeFlag)
             referenceRange == IF r # 0 THEN RangeText(beforeFlag[r]) ELSE <<>>
             afterRange == IF r # 0 THEN RemoveAt(beforeFlag, r) ELSE beforeFlag
             v == LastNumberIndex(afterRange)
             \* the last match; inside a range word it is the hyphen and the
             \* second number
             value == IF v = 0 THEN ""
                      ELSE IF afterRange[v].k = "num" THEN afterRange[v].s
                      ELSE afterRange[v].last
             \* working.slice(0, working.lastIndexOf(value)).trim()
             beforeValue == IF v = 0 THEN afterRange
                            ELSE IF afterRange[v].k = "num"
                            THEN SubSeq(afterRange, 1, v - 1)
                            ELSE Append(SubSeq(afterRange, 1, v - 1),
                                        Word("num", afterRange[v].lo))
             \* UNIT_REGEX matches the last word when it is letters, % and /
             n == Len(beforeValue)
             hasUnit == n > 0 /\ beforeValue[n].k \in LettersOnly
             unit == IF hasUnit THEN beforeValue[n].s ELSE ""
             working == IF hasUnit THEN SubSeq(beforeValue, 1, n - 1) ELSE beforeValue
             testName == IF working # <<>> THEN Spellings(working) ELSE fallbackTest
         IN  IF IsNormalText(flagWord) THEN <<>>
             ELSE IF testName = <<>> \/ value = "" THEN <<>>
             ELSE <<Finding(testName, value, unit, referenceRange, flagWord)>>

\* cleanedLines[i], '' when i is out of range (the default of the parameter)
LineAt(cleanedLines, i) == IF i \in DOMAIN cleanedLines THEN cleanedLines[i] ELSE <<>>

\* strategy 1: every line with a digit is given to extractTestDataFromLine; a
\* header line has no digit and is skipped by the same test
RECURSIVE TableFindings(_, _)
TableFindings(cleanedLines, i) ==
    IF i > Len(cleanedLines) THEN <<>>
    ELSE LET extracted == IF HasDigit(cleanedLines[i])
                          THEN extractTestDataFromLine(cleanedLines[i],
                                                       LineAt(cleanedLines, i + 1),
                                                       LineAt(cleanedLines, i - 1))
                          ELSE <<>>
             kept == IF extracted # <<>> /\ extracted[1].flag # ""
                        /\ ~IsNormalText(extracted[1].flag)
                     THEN extracted ELSE <<>>
         IN  kept \o TableFindings(cleanedLines, i + 1)

\* strategy 2: lines are buffered until the joined buffer holds a flag or a
\* normal word; the joined buffer becomes a row when it holds a flag and no
\* normal word.  The texts in use stay under 180 characters.
RECURSIVE BufferRows(_, _, _)
BufferRows(cleanedLines, i, buffer) ==
    IF i > Len(cleanedLines) THEN <<>>
    ELSE IF ~HasDigit(cleanedLines[i]) /\ buffer = <<>>
    THEN BufferRows(cleanedLines, i + 1, cleanedLines[i])
    ELSE LET joined == buffer \o cleanedLines[i]
         IN  IF FlagIndex(joined) # 0 \/ HasNormal(joined)
             THEN (IF FlagIndex(joined) # 0 /\ ~HasNormal(joined)
                   THEN <<joined>> ELSE <<>>)
                  \o BufferRows(cleanedLines, i + 1, <<>>)
             ELSE BufferRows(cleanedLines, i + 1, joined)

\* the rows parsed in order; a row whose test is already among the findings
\* (lower case, trimmed) is dropped
RECURSIVE ParseRows(_, _, _, _)
ParseRows(rows, i, findings, lastTest) ==
    IF i > Len(rows) THEN findings
    ELSE LET parsed == parseAbnormalRow(rows[i], lastTest)
         IN  IF parsed = <<>> THEN ParseRows(rows, i + 1, findings, lastTest)
             ELSE IF \E j \in DOMAIN findings :
                        LowerText(findings[j].test) = LowerText(parsed[1].test)
             THEN ParseRows(rows, i + 1, findings, parsed[1].test)
             ELSE ParseRows(rows, i + 1, findings \o parsed, parsed[1].test)

\* extractAbnormalFromText(text), the text given as its non-empty lines
extractAbnormalFromText(text) ==
    ParseRows(BufferRows(text, 1, <<>>), 1, TableFindings(text, 1), <<>>)

(***************************************************************************)
(* SpecExtract: extractAbnormalFromText applied to bounded texts.          *)
(***************************************************************************)
MaxLines == 2

HemoglobinWord == Word("name", "Hemoglobin")
Value92 == Word("num", "9.2")
GramsPerDl == Word("unit", "g/dL")
Range12to15 == RangeWord("12.0-15.5", "12.0", "15.5", "-15.5")
LowWord == Word("flag", "Low")
ElevatedWord == Word("flag", "Elevated")
NormalWord == Word("normal", "Normal")

\* the result column of a row: nothing, a flag, a normal word, or both
StatusColumns ==
    {<<>>, <<LowWord>>, <<ElevatedWord>>, <<NormalWord>>,
     <<NormalWord, LowWord>>, <<LowWord, NormalWord>>}

\* the columns of a row, each present or not
RowColumns ==
    {SeqFilter(<<HemoglobinWord, Value92, GramsPerDl, Range12to15>>, present) :
        present \in [1..4 -> BOOLEAN]}

\* a row written with single spaces, or as a table with a pipe after every
\* column; a reference line and a row with the unit before the value are
\* among the lines too
RECURSIVE Piped(_)
Piped(words) ==
    IF Len(words) <= 1 THEN words
    ELSE <<words[1], Pipe>> \o Piped(Tail(words))

Lines ==
    {line \in {columns \o status : columns \in RowColumns, status \in StatusColumns}
              \cup {Piped(columns \o status) :
                        columns \in RowColumns, status \in StatusColumns}
              \cup {<<NormalWord, Range12to15>>,
                    <<HemoglobinWord, GramsPerDl, Value92, Range12to15, LowWord>>} :
        Len(line) >= 2}

Texts == UNION {[1..n -> Lines] : n \in 1..MaxLines}

InitExtract ==
    /\ env = AllKeysEnv
    /\ req = [op |-> "extract", sectionType |-> "none", minProviders |-> 0]
    /\ pc = "start"
    /\ calls = [i \in CallIds |-> IdleCall]
    /\ consensus = NoConsensus
    /\ result = NoResult
    /\ out = NoOutcome
    /\ jsonIn = NoJsonIn
    /\ jsonOut = NoJsonOut
    /\ willAnswer = NoneAnswers
    /\ settled = <<>>
    /\ adapter = IdleAdapter
    /\ memoryCache = <<>>
    /\ lookups = <<>>
    /\ writes = <<>>
    /\ \E text \in Texts : report = [NoReport EXCEPT !.parsedText = text]

\* const fallbackFindings = extractAbnormalFromText(parsedText)
ExtractFromText ==
    /\ pc = "start"
    /\ req.op = "extract"
    /\ report' = [report EXCEPT
                     !.fallbackFindings = extractAbnormalFromText(report.parsedText)]
    /\ pc' = "extracted"
    /\ UNCHANGED <<env, req, calls, consensus, result, out, jsonIn, jsonOut, willAnswer, settled, adapter, memoryCache, lookups, writes>>

NextExtract == ExtractFromText

SpecExtract == InitExtract /\ [][NextExtract]_vars

(***************************************************************************)
(* controllers/aiController.js, interpretReport after the answer: the AI's *)
(* abnormal_values are normalized, merged with the findings extracted from *)
(* the text, and the enrichment steps run before the record is created.    *)
(***************************************************************************)
\* a JavaScript value of the field `value`: absent, a number or a string,
\* with its String(...) text
Absent == [t |-> "undefined", text |-> ""]
NumberValue(text) == [t |-> "number", text |-> text]
StringValue(text) == [t |-> "string", text |-> text]

\* v.value ? ... : ...
Truthy(v) == v.t # "undefined" /\ v.text # "" /\ ~(v.t = "number" /\ v.text = "0")

\* an item of abnormal_values with the fields test, name, value, unit,
\* reference_range, interpretation, flag and severity; the items in use have
\* none of the alternative fields (units, range, reference, meaning, status,
\* level)
RawFinding(test, name, value, reference_range, interpretation) ==
    [test |-> test, name |-> name, value |-> value, unit |-> "",
     reference_range |-> reference_range, interpretation |-> interpretation,
     flag |-> "Low", severity |-> ""]

\* the callback of result.abnormal_values.map
NormalizeFinding(v) ==
    LET r == RangeIndex(v.interpretation)
        referenceRange ==
            IF v.reference_range # <<>> THEN v.reference_range
            ELSE IF v.interpretation # <<>> /\ r # 0 THEN RangeText(v.interpretation[r])
            ELSE <<>>
    IN  [test |-> IF v.test # <<>> THEN v.test ELSE v.name,
         value |-> IF Truthy(v.value) THEN v.value.text ELSE "",
         unit |-> v.unit,
         referenceRange |-> referenceRange,
         interpretation |-> Spellings(v.interpretation),
         flag |-> v.flag,
         severity |-> v.severity]

NotAnArray == [isArray |-> FALSE, items |-> <<>>]
ArrayOf(items) == [isArray |-> TRUE, items |-> items]

\* Array.isArray(result.abnormal_values) ? result.abnormal_values.map(...) : []
NormalizedFindings(values) ==
    IF values.isArray
    THEN [i \in DOMAIN values.items |-> NormalizeFinding(values.items[i])]
    ELSE <<>>

\* f.test && extracted.test &&
\* f.test.toLowerCase().trim() === extracted.test.toLowerCase().trim()
SameTest(f, extracted) ==
    /\ f.test # <<>>
    /\ extracted.test # <<>>
    /\ LowerText(f.test) = LowerText(extracted.test)

\* the loop over fallbackFindings: the first finding of the same test gets the
\* extracted range if it has none, a finding of a new test is pushed
RECURSIVE MergeFindings(_, _, _)
MergeFindings(mergedFindings, fallback, i) ==
    IF i > Len(fallback) THEN mergedFindings
    ELSE LET extracted == fallback[i]
             hits == {j \in DOMAIN mergedFindings : SameTest(mergedFindings[j], extracted)}
             existing == CHOOSE j \in hits : \A k \in hits : j <= k
         IN  IF hits = {}
             THEN MergeFindings(Append(mergedFindings, extracted), fallback, i + 1)
             ELSE IF extracted.referenceRange # <<>>
                     /\ mergedFindings[existing].referenceRange = <<>>
             THEN MergeFindings(
                      [mergedFindings EXCEPT
                          ![existing].referenceRange = extracted.referenceRange],
                      fallback, i + 1)
             ELSE MergeFindings(mergedFindings, fallback, i + 1)

\* abnormalFindings after the merge block
MergedWith(findings, fallback) ==
    IF Len(fallback) > 0 THEN MergeFindings(findings, fallback, 1) ELSE findings

\* abnormalFindings.filter(f => !f.referenceRange || f.referenceRange.trim() === '')
NeedsRange(f) == f.referenceRange = <<>>

\* one entry of the answer's reference_ranges list
Entry(test, reference_range) == [test |-> test, reference_range |-> reference_range]

\* the text 'Not available' in place of a range
NotAvailable == <<"Not available">>

\* a.includes(b) for trimmed lower-case texts; no word of the vocabulary lies
\* inside another, so the text b lies in a where its words lie in a's in a row
IncludesText(a, b) ==
    \E k \in 0..(Len(a) - Len(b)) : SubSeq(a, k + 1, k + Len(b)) = b

\* rrWords.filter(w => findingWords.includes(w)).length
CommonWords(rrWords, findingWords) ==
    Cardinality({i \in DOMAIN rrWords :
                    \E j \in DOMAIN findingWords : findingWords[j] = rrWords[i]})

Min(a, b) == IF a <= b THEN a ELSE b

\* rrTest === findingTest, for an entry and a finding that both name a test
ExactMatch(rr, finding) ==
    /\ rr.test # <<>>
    /\ finding.test # <<>>
    /\ LowerText(rr.test) = LowerText(finding.test)

\* the callback of referenceRanges.find: exact, or one text inside the other,
\* or common words >= 0.6 * the shorter word count
MatchesEntry(rr, finding) ==
    IF rr.test = <<>> \/ finding.test = <<>> THEN FALSE
    ELSE LET rrTest == LowerText(rr.test)
             findingTest == LowerText(finding.test)
         IN  IF rrTest = findingTest THEN TRUE
             ELSE IF IncludesText(rrTest, findingTest) \/ IncludesText(findingTest, rrTest)
             THEN TRUE
             ELSE 10 * CommonWords(rrTest, findingTest)
                     >= 6 * Min(Len(rrTest), Len(findingTest))

\* the range of an entry is used unless it is empty or 'Not available'
Usable(entry) ==
    entry.reference_range # <<>> /\ entry.reference_range # NotAvailable

\* enrichFindingsWithReferenceRanges(findings) once the answer parsed to the
\* list referenceRanges: every finding takes the range of the first entry
\* that matches it
enrichFindingsWithReferenceRanges(findings, referenceRanges) ==
    [k \in DOMAIN findings |->
        LET hits == {e \in DOMAIN referenceRanges :
                        MatchesEntry(referenceRanges[e], findings[k])}
            match == referenceRanges[CHOOSE e \in hits : \A l \in hits : e <= l]
        IN  IF hits # {} /\ Usable(match)
            THEN [findings[k] EXCEPT !.referenceRange = match.reference_range]
            ELSE findings[k]]

\* the findings handed to the enrichment
FindingsNeedingRanges(findings) ==
    SeqFilter(findings, [i \in DOMAIN findings |-> NeedsRange(findings[i])])

\* the range the model answers for a test that lacks one
EnrichedRange == <<"13.5", "17.5">>

\* the answer that names every test it was asked about, with one range
RangeAnswer(findings) ==
    LET asked == SeqFilter(findings, [i \in DOMAIN findings |-> findings[i].test # <<>>])
    IN  [i \in DOMAIN asked |-> Entry(asked[i].test, EnrichedRange)]

\* enrichFindingsWithReferenceRanges(findings) when the model answers a range
\* for every test it is asked about; a finding without a test matches none
EnrichedFindings(findings) ==
    enrichFindingsWithReferenceRanges(findings, RangeAnswer(findings))

\* abnormalFindings.map(...): every finding takes the range of the first
\* enriched finding of exactly its test, when that range is not empty and not
\* its own
UpdatedFindings(findings, enrichedFindings) ==
    [i \in DOMAIN findings |->
        LET hits == {k \in DOMAIN enrichedFindings :
                        enrichedFindings[k].test = findings[i].test}
            enriched == enrichedFindings[CHOOSE k \in hits : \A l \in hits : k <= l]
        IN  IF hits # {} /\ enriched.referenceRange # <<>>
               /\ enriched.referenceRange # findings[i].referenceRange
            THEN [findings[i] EXCEPT !.referenceRange = enriched.referenceRange]
            ELSE findings[i]]

WithEnrichedRanges(findings) ==
    UpdatedFindings(findings, EnrichedFindings(FindingsNeedingRanges(findings)))

EnrichmentSteps == {"ranges", "medications", "statistics", "videos", "specialists"}

\* the statistics fetched outside a try block
Caught_StatisticsEscapes(step) == step # "statistics"

\* whether the failure of a step is caught before it reaches interpretReport's
\* outer catch: the try blocks around the range enrichment and the statistics,
\* the catch blocks inside the drug lookups, fetchVideoResources and
\* fetchSpecialists
Caught(step) == step \in EnrichmentSteps

\* the medication named by the answer
Iron == "Iron"

\* enrichMedications: one entry per name, with the drug data of the lookups
\* that answered; a failed lookup is null and leaves its fields empty
MedicationDetails(medications, lookupsOk) ==
    [i \in DOMAIN medications |->
        [name |-> medications[i],
         rxCUI |-> IF lookupsOk THEN "rxcui" ELSE "null",
         effect |-> IF lookupsOk THEN "summary" ELSE "Consult your healthcare provider",
         sources |-> IF lookupsOk THEN {"RxNorm", "OpenFDA"} ELSE {}]]

\* fetchVideoResources: the videos found, else fetchWebResources: the
\* resources of the model, its generated fallback list, or nothing
VideoOutcomes == {"videos", "web", "generated", "empty"}

\* a step left interpretReport with an error
EnrichmentError == "enrichment error"

\* the state after a step: its value is stored and the next step follows,
\* or the error leaves the handler
AfterStep(step, failed, stored, next) ==
    IF failed /\ ~Caught(step)
    THEN /\ out' = Failure(out, EnrichmentError)
         /\ pc' = "done"
         /\ report' = [report EXCEPT !.failed = @ \cup {step}]
    ELSE /\ out' = out
         /\ pc' = next
         /\ report' = IF failed THEN [stored EXCEPT !.failed = @ \cup {step}] ELSE stored

\* let abnormalFindings = ...map(...)
NormalizeFindings ==
    /\ pc = "answered"
    /\ report' = [report EXCEPT
                     !.abnormalFindings = NormalizedFindings(report.abnormal_values)]
    /\ pc' = "normalized"
    /\ UNCHANGED <<env, req, calls, consensus, result, out, jsonIn, jsonOut, willAnswer, settled, adapter, memoryCache, lookups, writes>>

\* const fallbackFindings = extractAbnormalFromText(parsedText) and the merge
MergeExtracted ==
    /\ pc = "normalized"
    /\ LET fallbackFindings == extractAbnormalFromText(report.parsedText)
       IN  report' = [report EXCEPT
                         !.fallbackFindings = fallbackFindings,
                         !.abnormalFindings = MergedWith(@, fallbackFindings)]
    /\ pc' = "merged"
    /\ UNCHANGED <<env, req, calls, consensus, result, out, jsonIn, jsonOut, willAnswer, settled, adapter, memoryCache, lookups, writes>>

\* the range enrichment: skipped when no finding lacks a range; when the
\* model call fails the findings stay as they are
RangesStep(ok, referenceRanges) ==
    /\ pc = "merged"
    /\ IF \A i \in DOMAIN report.abnormalFindings : ~NeedsRange(report.abnormalFindings[i])
       THEN /\ ok
            /\ referenceRanges = <<>>
            /\ AfterStep("ranges", FALSE, report, "ranged")
       ELSE LET needing == FindingsNeedingRanges(report.abnormalFindings)
                enrichedFindings ==
                    enrichFindingsWithReferenceRanges(needing, referenceRanges)
            IN  AfterStep("ranges", ~ok,
                          IF ok
                          THEN [report EXCEPT
                                  !.referenceRanges = referenceRanges,
                                  !.enrichedFindings = enrichedFindings,
                                  !.abnormalFindings =
                                      UpdatedFindings(@, enrichedFindings)]
                          ELSE report,
                          "ranged")
    /\ UNCHANGED <<env, req, calls, consensus, result, jsonIn, jsonOut, willAnswer, settled, adapter, memoryCache, lookups, writes>>

\* the step with an answer that names every test asked about
EnrichRanges(ok) ==
    RangesStep(ok, IF \A i \in DOMAIN report.abnormalFindings :
                         ~NeedsRange(report.abnormalFindings[i])
                   THEN <<>>
                   ELSE RangeAnswer(FindingsNeedingRanges(report.abnormalFindings)))

\* medications.length ? await enrichMedications(medications) : []
EnrichMedications(medications, lookupsOk) ==
    /\ pc = "ranged"
    /\ medications = <<>> => lookupsOk
    /\ AfterStep("medications", ~lookupsOk,
                 [report EXCEPT !.medicationDetails = MedicationDetails(medications, lookupsOk)],
                 "medicated")
    /\ UNCHANGED <<env, req, calls, consensus, result, jsonIn, jsonOut, willAnswer, settled, adapter, memoryCache, lookups, writes>>

\* fetchGlobalStatisticsAndPatientImpact in its try block; the record stores
\* globalStatistics || {}
FetchStatistics(ok) ==
    /\ pc = "medicated"
    /\ AfterStep("statistics", ~ok,
                 [report EXCEPT !.globalStatistics = IF ok THEN "present" ELSE "empty"],
                 "counted")
    /\ UNCHANGED <<env, req, calls, consensus, result, jsonIn, jsonOut, willAnswer, settled, adapter, memoryCache, lookups, writes>>

\* the answer's video_resources, else fetchVideoResources
FetchVideos(outcome) ==
    /\ pc = "counted"
    /\ AfterStep("videos", outcome \in VideoOutcomes \ {"videos"},
                 [report EXCEPT !.videoResources = outcome],
                 "filmed")
    /\ UNCHANGED <<env, req, calls, consensus, result, jsonIn, jsonOut, willAnswer, settled, adapter, memoryCache, lookups, writes>>

\* fetchSpecialists
FetchSpecialists(ok) ==
    /\ pc = "filmed"
    /\ AfterStep("specialists", ~ok,
                 [report EXCEPT !.specialistProviders = IF ok THEN "listed" ELSE "empty"],
                 "assembled")
    /\ UNCHANGED <<env, req, calls, consensus, result, jsonIn, jsonOut, willAnswer, settled, adapter, memoryCache, lookups, writes>>

(***************************************************************************)
(* SpecAssemble: interpretReport from the answer to the response.          *)
(***************************************************************************)
MaxValues == 2

LowerHemoglobin == <<"hemoglobin">>
UpperHemoglobin == <<"Hemoglobin">>
GlucoseName == <<"Glucose">>

RawFindings ==
    {RawFinding(LowerHemoglobin, <<>>, StringValue("9.2"), <<>>, <<>>),
     RawFinding(UpperHemoglobin, <<>>, NumberValue("9.4"), <<"13.0", "17.0">>,
                <<LowWord>>),
     RawFinding(UpperHemoglobin, <<>>, StringValue("9.2"), <<>>, <<>>),
     RawFinding(<<>>, GlucoseName, NumberValue("0"), <<>>,
                <<Word("name", "below"), Range12to15>>),
     RawFinding(<<>>, <<>>, Absent, <<>>, <<>>)}

AbnormalValues ==
    {NotAnArray} \cup {ArrayOf(items) : items \in UNION {[1..n -> RawFindings] : n \in 0..MaxValues}}

\* a table row with a range, the same row written with spaces, a table row
\* without a range followed by one with a range
AssembleTexts ==
    {<<Piped(<<HemoglobinWord, Value92, GramsPerDl, Range12to15, LowWord>>)>>,
     <<<<HemoglobinWord, Value92, GramsPerDl, Range12to15, LowWord>>>>,
     <<Piped(<<HemoglobinWord, Value92, LowWord>>),
       Piped(<<HemoglobinWord, Value92, Range12to15, ElevatedWord>>)>>}

\* the answer of the consensus call, or of the single-provider fallback
Answers ==
    {[defined |-> TRUE, obj |-> AnemiaObject, name |-> DiseaseName(AnemiaObject),
      aiProvider |-> <<GROQ>>, aiModel |-> <<GroqModel>>,
      consensusValidated |-> FALSE, validatedBy |-> 1, aiResponse |-> a] :
        a \in {"consensus", "undefined"}}

InitAssemble ==
    /\ env = AllKeysEnv
    /\ req = [op |-> "assemble", sectionType |-> "json", minProviders |-> 1]
    /\ pc = "answered"
    /\ calls = [i \in CallIds |-> IdleCall]
    /\ consensus = NoConsensus
    /\ result \in Answers
    /\ out = NoOutcome
    /\ jsonIn = NoJsonIn
    /\ jsonOut = NoJsonOut
    /\ willAnswer = NoneAnswers
    /\ settled = <<>>
    /\ adapter = IdleAdapter
    /\ memoryCache = <<>>
    /\ lookups = <<>>
    /\ writes = <<>>
    /\ \E values \in AbnormalValues, text \in AssembleTexts :
          report = [NoReport EXCEPT !.abnormal_values = values, !.parsedText = text]

NextAssemble ==
    \/ NormalizeFindings
    \/ MergeExtracted
    \/ \E ok \in BOOLEAN : EnrichRanges(ok)
    \/ \E medications \in {<<>>, <<Iron>>}, ok \in BOOLEAN : EnrichMedications(medications, ok)
    \/ \E ok \in BOOLEAN : FetchStatistics(ok)
    \/ \E outcome \in VideoOutcomes \cup {"fromAnswer"} : FetchVideos(outcome)
    \/ \E ok \in BOOLEAN : FetchSpecialists(ok)
    \/ \E dbOk \in BOOLEAN : CreateDisease(dbOk)
    \/ \E dbOk \in BOOLEAN : SaveHistoryAndRespond(dbOk)

SpecAssemble == InitAssemble /\ [][NextAssemble]_vars

(***************************************************************************)
(* config/aiProvider.js: the transport adapters, one record per adapter    *)
(* call.  Temperatures are counted in tenths.                              *)
(***************************************************************************)
Max(a, b) == IF a >= b THEN a ELSE b

\* Math.max(lo, Math.min(hi, n))
Clamp(lo, hi, n) == Max(lo, Min(hi, n))

\* the temperature an adapter puts in its request body
SentTemperature(name, temperature) ==
    IF name = OPENROUTER THEN Clamp(0, 20, temperature) ELSE temperature

\* max_tokens, maxOutputTokens or max_new_tokens of the request body
SentMaxTokens(name, maxTokens) ==
    IF name = OPENROUTER THEN Clamp(1, 32000, maxTokens)
    ELSE IF name = HUGGINGFACE THEN Min(maxTokens, 2000)
    ELSE maxTokens

\* the models callGroq and callHuggingFace loop over: the configured model,
\* then the fixed list, which begins with the default again
GroqModels(model) ==
    <<model, "llama-3.3-70b-versatile", "llama-3.1-8b-instant",
      "llama-3.1-70b-versatile", "llama-3-8b-8192", "mixtral-8x7b-32768">>

HuggingFaceModels(model) ==
    <<model, "mistralai/Mistral-7B-Instruct-v0.2", "meta-llama/Llama-2-7b-chat-hf",
      "google/flan-t5-large">>

\* model.includes('perplexity'), model.includes('anthropic') || model.includes('claude')
IsPerplexityModel(model) ==
    model \in {"perplexity/llama-3.1-sonar-large-32k-online",
               "perplexity/llama-3.1-sonar-huge-128k-online",
               "perplexity/llama-3.1-sonar-small-32k-online"}

IsClaudeModel(model) ==
    model \in {"anthropic/claude-3.5-sonnet", "anthropic/claude-3-haiku",
               "anthropic/claude-3-opus"}

\* the fallbackModels array of callOpenRouter
OpenRouterFallbackModels(model) ==
    IF IsPerplexityModel(model)
    THEN <<"perplexity/llama-3.1-sonar-large-32k-online",
           "perplexity/llama-3.1-sonar-huge-128k-online",
           "perplexity/llama-3.1-sonar-small-32k-online",
           "google/gemini-2.0-flash-exp">>
    ELSE IF IsClaudeModel(model)
    THEN <<"anthropic/claude-3-haiku", "anthropic/claude-3-opus",
           "google/gemini-2.0-flash-exp">>
    ELSE <<"google/gemini-2.0-flash", "google/gemini-pro", "google/gemini-flash-1.5",
           "anthropic/claude-3-haiku">>

\* the fallbackModels array of callGemini
GeminiFallbackModels ==
    <<"gemini-2.0-flash", "gemini-2.5-flash", "gemini-2.5-pro", "gemini-2.0-flash-lite">>

FallbackModels(name, model) ==
    IF name = OPENROUTER THEN OpenRouterFallbackModels(model) ELSE GeminiFallbackModels

\* for (const fallbackModel of fallbackModels) { if (fallbackModel === model) continue;
\* the first position from pos on that is not skipped, or one past the end
RECURSIVE SkipRequested(_, _, _)
SkipRequested(models, model, pos) ==
    IF pos <= Len(models) /\ models[pos] = model
    THEN SkipRequested(models, model, pos + 1)
    ELSE pos

\* the content of the response a model gave
ReplyOf(model) == <<"reply of", model>>

\* content || '{}'
EmptyObjectReply == <<"{}">>

\* one request of an adapter and how it ended; the fallback requests of
\* callGemini carry no generationConfig
Request(a, model, sendsConfig, outcome) ==
    [model |-> model, sendsConfig |-> sendsConfig,
     temperature |-> SentTemperature(a.name, a.temperature),
     max_tokens |-> SentMaxTokens(a.name, a.maxTokens),
     outcome |-> outcome]

\* the adapters with a primary request and a fallback loop, with a loop over
\* a model list, with one request
LoopAdapters == {GROQ, HUGGINGFACE}
FallbackAdapters == {OPENROUTER, GEMINI}

\* the adapter call after its client and key checks passed
BeginAdapter(name, model, temperature, maxTokens) ==
    [IdleAdapter EXCEPT
        !.name = name, !.model = model, !.temperature = temperature,
        !.maxTokens = maxTokens,
        !.status = IF name \in LoopAdapters THEN "loop" ELSE "primary",
        !.models = IF name = GROQ THEN GroqModels(model)
                   ELSE IF name = HUGGINGFACE THEN HuggingFaceModels(model)
                   ELSE <<>>,
        !.pos = IF name \in LoopAdapters THEN 1 ELSE 0]

Returned(a, request, content) ==
    [a EXCEPT !.requests = Append(@, request), !.status = "returned",
              !.content = content]

Threw(a, request, thrown) ==
    [a EXCEPT !.requests = Append(@, request), !.status = "threw",
              !.thrown = thrown]

\* err.message.includes('404') || includes('not found') || includes('model'):
\* callOpenRouter's message for a 400 names the 'model name', the message for
\* a 404 holds '404', the message for a 401 is fixed, and the other messages
\* quote the text of the response, which may hold any of the words
EntersFallback(name, outcome, mentions) ==
    IF outcome \in {"content", "empty"} THEN FALSE
    ELSE IF outcome = "404" THEN TRUE
    ELSE IF name = OPENROUTER /\ outcome = "400" THEN TRUE
    ELSE IF name = OPENROUTER /\ outcome = "401" THEN FALSE
    ELSE mentions

\* a loop that goes on to the next fallback model after a 400
BreaksLoop_Never(name, outcome) == FALSE

\* else if (response.status === 400) break; callGemini's loop has no break
BreaksLoop(name, outcome) == name = OPENROUTER /\ outcome = "400"

\* the fallback loop from position pos on: the next request, or throw err
ContinueFallback(a, pos) ==
    LET next == SkipRequested(a.models, a.model, pos)
    IN  IF next > Len(a.models)
        THEN [a EXCEPT !.status = "threw", !.thrown = a.error, !.pos = next]
        ELSE [a EXCEPT !.status = "fallback", !.pos = next]

\* the primary request of callOpenRouter, callGemini, callPerplexity or
\* callOpenAI ended
AfterPrimary(a, outcome, mentions) ==
    LET request == Request(a, a.model, TRUE, outcome)
    IN  IF outcome = "content" THEN Returned(a, request, ReplyOf(a.model))
        ELSE IF a.name \in FallbackAdapters
        THEN IF EntersFallback(a.name, outcome, mentions)
             THEN ContinueFallback(
                      [a EXCEPT !.requests = Append(@, request), !.error = outcome,
                                !.models = FallbackModels(a.name, a.model)], 1)
             ELSE Threw(a, request, outcome)
        ELSE IF outcome = "empty" THEN Returned(a, request, EmptyObjectReply)
        ELSE Threw(a, request, outcome)

\* one request of the fallback loop ended
AfterFallback(a, outcome) ==
    LET request == Request(a, a.models[a.pos], a.name = OPENROUTER, outcome)
        logged == [a EXCEPT !.requests = Append(@, request)]
    IN  IF outcome = "content" THEN Returned(a, request, ReplyOf(a.models[a.pos]))
        ELSE IF BreaksLoop(a.name, outcome) THEN Threw(a, request, a.error)
        ELSE ContinueFallback(logged, a.pos + 1)

\* one request of callGroq's or callHuggingFace's loop ended
AfterLoopRequest(a, outcome) ==
    LET request == Request(a, a.models[a.pos], TRUE, outcome)
    IN  IF outcome = "content" THEN Returned(a, request, ReplyOf(a.models[a.pos]))
        ELSE IF outcome = "empty"
        THEN IF a.name = GROQ THEN Returned(a, request, EmptyObjectReply)
             ELSE Threw(a, request, "Unexpected Hugging Face response format")
        ELSE IF outcome = "not found"
        THEN IF a.pos < Len(a.models)
             THEN [a EXCEPT !.requests = Append(@, request), !.pos = @ + 1]
             ELSE Threw(a, request, "All models failed")
        ELSE Threw(a, request, outcome)

PrimaryOutcomes == {"content", "empty", "400", "401", "404", "429", "500", "network"}
FallbackOutcomes == {"content", "empty", "400", "500", "network"}
LoopOutcomes == {"content", "empty", "not found", "500"}

PrimaryResponds(outcome, mentions) ==
    /\ adapter.status = "primary"
    /\ adapter' = AfterPrimary(adapter, outcome, mentions)
    /\ UNCHANGED <<env, req, pc, calls, consensus, result, out, jsonIn, jsonOut, willAnswer, settled, report, memoryCache, lookups, writes>>

FallbackResponds(outcome) ==
    /\ adapter.status = "fallback"
    /\ adapter' = AfterFallback(adapter, outcome)
    /\ UNCHANGED <<env, req, pc, calls, consensus, result, out, jsonIn, jsonOut, willAnswer, settled, report, memoryCache, lookups, writes>>

LoopResponds(outcome) ==
    /\ adapter.status = "loop"
    /\ adapter' = AfterLoopRequest(adapter, outcome)
    /\ UNCHANGED <<env, req, pc, calls, consensus, result, out, jsonIn, jsonOut, willAnswer, settled, report, memoryCache, lookups, writes>>

(***************************************************************************)
(* SpecAdapter: one call of one transport adapter, for the models it may   *)
(* be asked for and caller values inside and outside the backends' ranges. *)
(***************************************************************************)
\* the model an adapter is called for: options.model for callOpenRouter, the
\* environment's model or the default for the others
AdapterModels(name) ==
    IF name = OPENROUTER
    THEN {GeminiOnOpenRouter, PerplexityOnOpenRouter, ClaudeOnOpenRouter,
          "google/gemini-2.0-flash", "anthropic/claude-3-haiku"}
    ELSE IF name = GEMINI THEN {GeminiDirect, "gemini-2.5-flash"}
    ELSE IF name = GROQ THEN {GroqModel, "llama-3.1-8b-instant"}
    ELSE IF name = HUGGINGFACE THEN {HuggingFaceModel, "google/flan-t5-large"}
    ELSE IF name = OPENAI THEN {OpenAIModel}
    ELSE {PerplexityDirect}

\* temperatures -0.5, 0.2 and 2.5; token limits 0, 2000 and 40000
Temperatures == {0 - 5, 2, 25}
TokenLimits == {0, 2000, 40000}

InitAdapter ==
    /\ env = AllKeysEnv
    /\ req = [op |-> "adapter", sectionType |-> "none", minProviders |-> 0]
    /\ pc = "start"
    /\ calls = [i \in CallIds |-> IdleCall]
    /\ consensus = NoConsensus
    /\ result = NoResult
    /\ out = NoOutcome
    /\ jsonIn = NoJsonIn
    /\ jsonOut = NoJsonOut
    /\ willAnswer = NoneAnswers
    /\ settled = <<>>
    /\ report = NoReport
    /\ \E name \in {OPENROUTER, GEMINI, GROQ, HUGGINGFACE, OPENAI, PERPLEXITY} :
          \E model \in AdapterModels(name) :
             \E temperature \in Temperatures, maxTokens \in TokenLimits :
                adapter = BeginAdapter(name, model, temperature, maxTokens)
    /\ memoryCache = <<>>
    /\ lookups = <<>>
    /\ writes = <<>>

NextAdapter ==
    \/ \E outcome \in PrimaryOutcomes, mentions \in BOOLEAN :
          PrimaryResponds(outcome, mentions)
    \/ \E outcome \in FallbackOutcomes : FallbackResponds(outcome)
    \/ \E outcome \in LoopOutcomes : LoopResponds(outcome)

SpecAdapter == InitAdapter /\ [][NextAdapter]_vars

(***************************************************************************)
(* SpecRanges: enrichFindingsWithReferenceRanges over merged findings and  *)
(* the reference_ranges lists the model may answer.                        *)
(***************************************************************************)
MaxEntries == 2

FastingBloodGlucose == <<"fasting", "blood", "Glucose">>

\* findings after the merge: hemoglobin without and with a range, a test of
\* three words, a finding without a test
RangeFindings ==
    {NormalizeFinding(RawFinding(UpperHemoglobin, <<>>, StringValue("9.2"), <<>>, <<>>)),
     NormalizeFinding(RawFinding(UpperHemoglobin, <<>>, NumberValue("9.4"),
                                 <<"13.0", "17.0">>, <<>>)),
     NormalizeFinding(RawFinding(FastingBloodGlucose, <<>>, StringValue("130"), <<>>, <<>>)),
     NormalizeFinding(RawFinding(<<>>, <<>>, Absent, <<>>, <<>>))}

\* entries of an answer: a longer test name that contains 'hemoglobin', the
\* exact name in lower case, a name sharing two words with the glucose test,
\* the exact name without a range
RangeEntries ==
    {Entry(<<"Hemoglobin", "a1c">>, <<"4.0", "5.6">>),
     Entry(<<"hemoglobin">>, <<"12.0", "16.0">>),
     Entry(<<"Glucose", "fasting">>, <<"70", "99">>),
     Entry(UpperHemoglobin, NotAvailable)}

RangeAnswers == UNION {[1..n -> RangeEntries] : n \in 0..MaxEntries}

InitRanges ==
    /\ env = AllKeysEnv
    /\ req = [op |-> "ranges", sectionType |-> "json", minProviders |-> 1]
    /\ pc = "merged"
    /\ calls = [i \in CallIds |-> IdleCall]
    /\ consensus = NoConsensus
    /\ result = NoResult
    /\ out = NoOutcome
    /\ jsonIn = NoJsonIn
    /\ jsonOut = NoJsonOut
    /\ willAnswer = NoneAnswers
    /\ settled = <<>>
    /\ adapter = IdleAdapter
    /\ memoryCache = <<>>
    /\ lookups = <<>>
    /\ writes = <<>>
    /\ \E findings \in UNION {[1..n -> RangeFindings] : n \in 1..MaxValues} :
          report = [NoReport EXCEPT !.abnormalFindings = findings]

NextRanges ==
    \E ok \in BOOLEAN : \E referenceRanges \in RangeAnswers :
        RangesStep(ok, referenceRanges)

SpecRanges == InitRanges /\ [][NextRanges]_vars

(***************************************************************************)
(* services/drugInfo.js: the lookups of enrichMedications and the cache    *)
(* they share.  DRUGBANK_API_KEY is not set, so getDrugBankInfo returns    *)
(* null before it reads the cache.                                         *)
(***************************************************************************)
MaxRequests == 2
MaxMedications == 2

RequestIds == 1..MaxRequests

Aspirin == "Aspirin"
LowerAspirin == "aspirin"
DrugNames == {Aspirin, LowerAspirin, Iron}

LookupKinds == {"rxnorm", "openfda"}

\* `${prefix}:${identifier.toLowerCase()}`
cacheKey(prefix, identifier) == <<prefix, LowerWord(identifier)>>

CacheKeys == {cacheKey(kind, name) : kind \in LookupKinds, name \in DrugNames}

\* memoryCache.has(key)
Has(cache, key) == cache[key] # "absent"

\* the lookups of one medication that miss the cache and go on to fetch:
\* if (memoryCache.has(key)) return memoryCache.get(key)
MissedKinds(cache, med) ==
    {kind \in LookupKinds : ~Has(cache, cacheKey(kind, med))}

\* the for loop of enrichMedications from position pos on: Promise.all starts
\* the lookups of the medication, each runs up to its first await; when all
\* of them hit the cache the loop goes on to the next medication
RECURSIVE Advance(_, _, _)
Advance(l, pos, cache) ==
    IF pos > Len(l.medications)
    THEN [l EXCEPT !.state = "done", !.pos = pos, !.fetching = {}]
    ELSE LET missed == MissedKinds(cache, l.medications[pos])
         IN  IF missed = {} THEN Advance(l, pos + 1, cache)
             ELSE [l EXCEPT !.state = "running", !.pos = pos, !.fetching = missed]

\* the value a lookup stores for what it fetched: the payload, or null when
\* the service knows no such drug; a failed fetch stores nothing
FetchOutcomes == {"payload", "null", "failed"}

\* enrichMedications(medications) is called in request r
StartEnrich(r) ==
    /\ lookups[r].state = "idle"
    /\ lookups' = [lookups EXCEPT ![r] = Advance(@, 1, memoryCache)]
    /\ UNCHANGED <<env, req, pc, calls, consensus, result, out, jsonIn, jsonOut, willAnswer, settled, report, adapter, memoryCache, writes>>

\* the fetch of one lookup of request r settles: memoryCache.set(key, ...)
\* unless it failed; after the last lookup of the medication the loop goes on
FetchReturns(r, kind, outcome) ==
    /\ lookups[r].state = "running"
    /\ kind \in lookups[r].fetching
    /\ LET l == lookups[r]
           key == cacheKey(kind, l.medications[l.pos])
           cache == IF outcome = "failed" THEN memoryCache
                    ELSE [memoryCache EXCEPT ![key] = outcome]
           rest == l.fetching \ {kind}
       IN  /\ memoryCache' = cache
           /\ writes' = IF outcome = "failed" THEN writes
                        ELSE [writes EXCEPT ![key] = @ + 1]
           /\ lookups' = [lookups EXCEPT ![r] =
                             IF rest = {} THEN Advance(l, l.pos + 1, cache)
                             ELSE [l EXCEPT !.fetching = rest]]
    /\ UNCHANGED <<env, req, pc, calls, consensus, result, out, jsonIn, jsonOut, willAnswer, settled, report, adapter>>

(***************************************************************************)
(* SpecCache: concurrent requests whose enrichMedications calls look drug  *)
(* names up, from an empty cache.                                          *)
(***************************************************************************)
\* Array.from(new Set(...)).slice(0, 5): names without repetition
MedicationLists ==
    {m \in UNION {[1..n -> DrugNames] : n \in 1..MaxMedications} :
        \A i \in DOMAIN m : \A j \in DOMAIN m : i # j => m[i] # m[j]}

InitCache ==
    /\ env = AllKeysEnv
    /\ req = [op |-> "lookups", sectionType |-> "none", minProviders |-> 0]
    /\ pc = "start"
    /\ calls = [i \in CallIds |-> IdleCall]
    /\ consensus = NoConsensus
    /\ result = NoResult
    /\ out = NoOutcome
    /\ jsonIn = NoJsonIn
    /\ jsonOut = NoJsonOut
    /\ willAnswer = NoneAnswers
    /\ settled = <<>>
    /\ report = NoReport
    /\ adapter = IdleAdapter
    /\ memoryCache = [key \in CacheKeys |-> "absent"]
    /\ \E medications \in [RequestIds -> MedicationLists] :
          lookups = [r \in RequestIds |->
                        [medications |-> medications[r], pos |-> 0,
                         state |-> "idle", fetching |-> {}]]
    /\ writes = [key \in CacheKeys |-> 0]

NextCache ==
    \/ \E r \in RequestIds : StartEnrich(r)
    \/ \E r \in RequestIds, kind \in LookupKinds, outcome \in FetchOutcomes :
          FetchReturns(r, kind, outcome)

SpecCache == InitCache /\ [][NextCache]_vars

(***************************************************************************)
(* Properties.                                                             *)
(***************************************************************************)
\* the adapter call the j-th entry of a call's provider list stands for
TargetAt(c, j) == Target(c.providers[j].name, RequestedModel(c.modelOpt, c.providers[j]))

\* the call's history is a prefix of its provider list, in list order
ContactsInListOrder(c) ==
    /\ Len(c.contacted) <= Len(c.providers)
    /\ \A j \in 1..Len(c.contacted) : c.contacted[j].target = TargetAt(c, j)

\* C1: in every generateAIResponse call the providers contacted are a
\* prefix p1..pk of the ordered list; each one before the last contacted has
\* failed; a call that returned did so with the text, name and position of the
\* last provider contacted, which is the only one that succeeded; no provider
\* is contacted once one has succeeded.
C1_FirstSuccessEndsChain ==
    \A i \in CallIds :
        LET c == calls[i]
            k == Len(c.contacted)
        IN  /\ ContactsInListOrder(c)
            /\ \A j \in 1..(k - 1) : c.contacted[j].outcome = "failed"
            /\ c.status = "ok" =>
                  /\ k >= 1
                  /\ c.contacted[k].outcome = "returned"
                  /\ c.content = c.contacted[k].text
                  /\ c.provider = c.providers[k].name
            /\ c.status = "running" => c.pos = k + 1

\* C1 witness: a call returned the answer of its second or later provider
\* while a later provider of its list was never contacted
C1_Witness ==
    \E i \in CallIds :
        /\ calls[i].status = "ok"
        /\ Len(calls[i].contacted) >= 2
        /\ Len(calls[i].contacted) < Len(calls[i].providers)

\* C2: a generateAIResponse call ends with 'All AI providers failed' exactly
\* when every provider of its list was attempted once, in order, and each
\* attempt failed, whatever the class of the failures; interpretReport answers
\* with that error only after the fallback call has made all N attempts.
C2_ExhaustionAfterAllAttempts ==
    /\ \A i \in CallIds :
          LET c == calls[i]
              allFailed == /\ Len(c.providers) >= 1
                           /\ Len(c.contacted) = Len(c.providers)
                           /\ \A j \in 1..Len(c.contacted) :
                                  c.contacted[j].outcome = "failed"
          IN  /\ ContactsInListOrder(c)
              /\ (c.status = "failed") <=> allFailed
              /\ c.status = "failed" => c.error \in FailureClasses
    /\ out.message = "All AI providers failed" =>
          /\ calls[0].status = "failed"
          /\ Len(calls[0].contacted) = Len(calls[0].providers)

\* C2 witness: a chain of at least two providers was exhausted and the last
\* failure was an authentication error
C2_Witness ==
    /\ out.message = "All AI providers failed"
    /\ Len(calls[0].providers) >= 2
    /\ calls[0].error = "auth"

\* C3: whenever getConsensusResponse threw and the fallback generateAIResponse
\* returned, the request that did not meet a database error ends with a
\* stored interpretation and a success response carrying
\* consensusValidated = false and validatedBy = 1.
C3_FallbackSuccessCompletes ==
    (/\ pc = "done"
     /\ consensus.status = "threw"
     /\ calls[0].status = "ok"
     /\ out.thrown # "database error") =>
        /\ out.status = "success"
        /\ out.diseaseSaved
        /\ result.consensusValidated = FALSE
        /\ result.validatedBy = 1

\* C4: a consensus fan-out is never left waiting: while getConsensusResponse
\* has not returned or thrown, either some provider call can still settle or
\* the join can be taken, so a call that never settles by itself is bounded by
\* its timeout and does not keep the others from being counted.
C4_FanOutNeverStuck ==
    (/\ pc = "awaiting"
     /\ \E i \in 1..Len(ConsensusProviders(env)) : calls[i].status = "hung") =>
        ENABLED NextConsensus

\* the consensus calls whose generateAIResponse returned
OkCalls == {i \in 1..Len(ConsensusProviders(env)) : calls[i].status = "ok"}

\* C5: getConsensusResponse never returns a value with no contributing
\* provider or built from fewer successful responses than minProviders; with
\* no successful response, or fewer than minProviders, it throws, for every
\* minProviders including 0.
C5_NeverTooFewContributors ==
    pc = "consensusSettled" =>
        /\ consensus.status \in {"returned", "threw"}
        /\ consensus.status = "returned" =>
              /\ Len(consensus.value.providers) >= 1
              /\ consensus.validatedBy = Cardinality(OkCalls)
              /\ consensus.validatedBy >= 1
              /\ consensus.validatedBy >= req.minProviders
        /\ (Cardinality(OkCalls) = 0 \/ Cardinality(OkCalls) < req.minProviders) =>
              consensus.status = "threw"

\* C5 witness: with minProviders = 0 every configured provider was called,
\* none answered, and getConsensusResponse threw
C5_Witness ==
    /\ pc = "consensusSettled"
    /\ req.minProviders = 0
    /\ Len(ConsensusProviders(env)) >= 2
    /\ OkCalls = {}
    /\ consensus.status = "threw"
    /\ consensus.error = "No successful responses from any provider"

\* C7: synthesizeConsensus over exactly one successful response, for either
\* sectionType, gives strategy 'single', that response's content unchanged,
\* and that response's provider as the only contributor.
C7_SingleSuccessReturnedUnchanged ==
    (jsonOut.done /\ Len(ResponsesOf(jsonIn)) = 1) =>
        LET only == ResponsesOf(jsonIn)[1]
        IN  /\ jsonOut.threw = FALSE
            /\ jsonOut.value.consensus = "single"
            /\ jsonOut.value.content = only.content
            /\ jsonOut.value.providers = <<only.provider>>
            /\ jsonOut.value.models = <<only.model>>

\* C7 witness: the only successful response is a JSON object and the section
\* type is json
C7_Witness ==
    /\ jsonOut.done
    /\ jsonOut.sectionType = "json"
    /\ Len(ResponsesOf(jsonIn)) = 1
    /\ ParseResponse(ResponsesOf(jsonIn)[1].content).ok
    /\ jsonOut.value.consensus = "single"

\* the adapter call the i-th consensus provider stands for
ConsensusTarget(i) ==
    Target(ConsensusProviders(env)[i].name, ConsensusProviders(env)[i].model)

\* three consensus providers are configured; during the request the first
\* one was contacted and every contact of it failed, every contact of the second and third
\* returned the JSON object {"probable_disease":"Anemia"}, no other provider
\* was contacted, and the interpretation was assembled
C6_Scenario ==
    /\ Len(ConsensusProviders(env)) = 3
    /\ ConsensusTarget(1) \notin {ConsensusTarget(2), ConsensusTarget(3)}
    /\ result.defined
    /\ \E j \in 1..Len(calls[1].contacted) :
          calls[1].contacted[j].target = ConsensusTarget(1)
    /\ \A i \in CallIds : \A j \in 1..Len(calls[i].contacted) :
          LET contact == calls[i].contacted[j]
          IN  /\ contact.target \in {ConsensusTarget(1), ConsensusTarget(2),
                                    ConsensusTarget(3)}
              /\ contact.target = ConsensusTarget(1) => contact.outcome = "failed"
              /\ contact.target # ConsensusTarget(1) =>
                    /\ contact.outcome = "returned"
                    /\ contact.text = Text("compact", AnemiaObject)

\* C6: with three consensus providers of which the first fails and the second
\* and third answer with valid JSON agreeing on probable_disease "Anemia", the
\* interpretation has name "Anemia", consensusValidated = true and
\* validatedBy = 2, the number of providers that answered.
C6_ValidatedByCountsAnswers ==
    C6_Scenario =>
        /\ result.name = <<"Anemia">>
        /\ result.consensusValidated = TRUE
        /\ result.validatedBy = 2

\* the objects parsed from the responses handed to synthesizeConsensus
JsonParsed == ParsedObjects(ResponsesOf(jsonIn))

\* the merged object of the JSON consensus
JsonMerged == jsonOut.value.parsed

\* synthesizeJsonConsensus ran and merged at least one parsed object
JsonConsensusRan ==
    /\ jsonOut.done
    /\ jsonOut.sectionType = "json"
    /\ jsonOut.threw = FALSE
    /\ Len(ResponsesOf(jsonIn)) >= 2
    /\ Len(JsonParsed) >= 1

\* the parsed responses that have the key, by priority position
Suppliers(parsed, key) == {i \in 1..Len(parsed) : key \in DOMAIN parsed[i]}

\* how many parsed responses give the key the value that response i gives it
VotesOf(parsed, key, i) ==
    Cardinality({j \in Suppliers(parsed, key) : parsed[j][key] = parsed[i][key]})

\* some value of the key has at least two votes
Agreed(parsed, key) == \E i \in Suppliers(parsed, key) : VotesOf(parsed, key, i) >= 2

\* the highest-priority response among those whose value for the key has the
\* most votes
TopVoted(parsed, key) ==
    CHOOSE i \in Suppliers(parsed, key) :
        /\ \A j \in Suppliers(parsed, key) :
              VotesOf(parsed, key, j) <= VotesOf(parsed, key, i)
        /\ \A j \in Suppliers(parsed, key) :
              j < i => VotesOf(parsed, key, j) < VotesOf(parsed, key, i)

\* C8: in a JSON consensus over at least two parsed responses, for every key
\* of which some value has at least 2 votes and whose winning value is not a
\* sequence, the merged value is the value with the most votes and, among
\* values tied at the most votes, the one of the highest-priority provider.
C8_MostVotedValueWins ==
    JsonConsensusRan =>
        LET parsed == JsonParsed
        IN  Len(parsed) >= 2 =>
              \A key \in ObservedKeys(parsed) :
                  LET winner == parsed[TopVoted(parsed, key)][key]
                  IN  (Agreed(parsed, key) /\ winner.t # "arr") =>
                          /\ key \in DOMAIN JsonMerged
                          /\ JsonMerged[key] = winner

RECURSIVE DistinctItems(_)
\* the items without the ones structurally equal to an earlier item
DistinctItems(items) ==
    IF items = <<>> THEN <<>>
    ELSE LET front == SubSeq(items, 1, Len(items) - 1)
             last == items[Len(items)]
         IN  IF \E i \in 1..Len(front) : front[i] = last
             THEN DistinctItems(front)
             ELSE Append(DistinctItems(front), last)

\* the items of every parsed response's sequence for the key, responses in
\* priority order, items in their own order
SequenceItems(parsed, key) ==
    Flatten([i \in 1..Len(parsed) |->
               IF key \in DOMAIN parsed[i] /\ parsed[i][key].t = "arr"
               THEN parsed[i][key].items ELSE <<>>])

\* C9: in a JSON consensus, every merged value that is a sequence is the
\* union of the items of all parsed responses' sequences for that key, in
\* priority order of the providers and first-seen order of the items, without
\* structurally equal duplicates.
C9_SequencesMergedAsUnion ==
    JsonConsensusRan =>
        LET parsed == JsonParsed
        IN  \A key \in DOMAIN JsonMerged :
                JsonMerged[key].t = "arr" =>
                    JsonMerged[key].items = DistinctItems(SequenceItems(parsed, key))

\* the set of the elements of a sequence
SeqRange(s) == {s[i] : i \in 1..Len(s)}

\* C10 as stated: in a JSON consensus every key of a parsed response is a
\* key of the merged object, and when no value of the key has 2 votes and more
\* than one response parsed, the merged value is the value of the
\* highest-priority provider that supplied the key.
C10_EveryKeyMerged ==
    JsonConsensusRan =>
        LET parsed == JsonParsed
        IN  \A key \in ObservedKeys(parsed) :
                /\ key \in DOMAIN JsonMerged
                /\ (Len(parsed) > 1 /\ ~Agreed(parsed, key)) =>
                      LET first == CHOOSE i \in Suppliers(parsed, key) :
                                       \A j \in Suppliers(parsed, key) : i <= j
                      IN  JsonMerged[key] = parsed[first][key]

\* C10 amended: a key of a parsed response is a key of the merged object
\* exactly when some value of it has 2 votes, or only one response parsed, or
\* the highest-priority parsed response has the key; when no value has 2 votes
\* and more than one response parsed, the merged value of a key the
\* highest-priority parsed response has is that response's value if it is not
\* a sequence, and otherwise a sequence of items of the responses' sequences
\* that holds every such item up to the item's text; a key the
\* highest-priority parsed response lacks is then left out.
C10_KeyMergedFromTopResponse ==
    JsonConsensusRan =>
        LET parsed == JsonParsed
            merged == JsonMerged
        IN  \A key \in ObservedKeys(parsed) :
                /\ key \in DOMAIN merged <=>
                      \/ Agreed(parsed, key)
                      \/ Len(parsed) = 1
                      \/ 1 \in Suppliers(parsed, key)
                /\ (/\ Len(parsed) > 1
                    /\ ~Agreed(parsed, key)
                    /\ 1 \in Suppliers(parsed, key)) =>
                      IF parsed[1][key].t # "arr"
                      THEN merged[key] = parsed[1][key]
                      ELSE /\ merged[key].t = "arr"
                           /\ SeqRange(merged[key].items) \subseteq
                                  SeqRange(SequenceItems(parsed, key))
                           /\ \A x \in SeqRange(SequenceItems(parsed, key)) :
                                  \E y \in SeqRange(merged[key].items) :
                                      ItemKey(x) = ItemKey(y)

\* C10 witness: two responses parsed, they disagree on the key, and the
\* merged value is the higher-priority response's value, which is not the
\* first entry of the tally
C10_Witness ==
    /\ JsonConsensusRan
    /\ Len(JsonParsed) = 2
    /\ \E key \in ObservedKeys(JsonParsed) :
          /\ Suppliers(JsonParsed, key) = {1, 2}
          /\ JsonParsed[1][key] = Num(2)
          /\ JsonParsed[2][key] = Num(1)
          /\ JsonMerged[key] = Num(2)

\* the positions of a provider list whose adapter is available and whose
\* provider has an answer
Answering(chain, modelOpt) ==
    {j \in 1..Len(chain) :
        /\ ~AdapterUnavailable(env, chain[j].name, RequestedModel(modelOpt, chain[j]))
        /\ willAnswer[chain[j].name]}

\* what the fixed answers make of the consensus providers, whatever the order
\* of completion: per consensus provider, in ascending priority, the answer
\* of the first answering provider of its call's list
ResponsesFromFixedAnswers ==
    LET slots == ConsensusProviders(env)
        chain(i) == getAvailableProviders(env, <<slots[i].name>>)
        hits(i) == Answering(chain(i), slots[i].model)
        first(i) == CHOOSE j \in hits(i) : \A k \in hits(i) : j <= k
        all == [i \in 1..Len(slots) |->
                  Response(slots[i].name, slots[i].model,
                           IF hits(i) = {} THEN NoAnswer
                           ELSE AnswerOf(chain(i)[first(i)].name),
                           slots[i].priority)]
    IN  SeqFilter(all, [i \in 1..Len(slots) |-> hits(i) # {}])

\* C11: for fixed provider answers the outcome of getConsensusResponse
\* (content, contributing providers in order, strategy, or the error) is the
\* same for every order in which the concurrent calls complete, and the
\* contributing providers of a returned value are in ascending priority.
C11_OutcomeIndependentOfCompletionOrder ==
    pc = "consensusSettled" =>
        LET expected == ResponsesFromFixedAnswers
        IN  /\ consensus = ConsensusOutcome(expected, req.sectionType, req.minProviders)
            /\ consensus.status = "returned" =>
                  consensus.value.providers =
                      [k \in 1..Len(expected) |-> expected[k].provider]
            /\ \A a, b \in 1..Len(expected) :
                  a < b => expected[a].priority < expected[b].priority

\* C11 witness: two calls that returned different answers completed in
\* descending priority order and the consensus was synthesised from both
C11_Witness ==
    /\ pc = "consensusSettled"
    /\ consensus.status = "returned"
    /\ Len(settled) >= 2
    /\ settled[1] > settled[2]
    /\ calls[settled[1]].status = "ok"
    /\ calls[settled[2]].status = "ok"
    /\ calls[settled[1]].content # calls[settled[2]].content

\* C12: a 2xx response whose assistant text is missing, empty or
\* whitespace-only makes the adapter call fail, for every adapter: the contact
\* is a failure, the orchestrator goes on to the next provider, and no
\* generateAIResponse call returns with such a response.
C12_UnusableResponseFailsAdapter ==
    /\ \A j \in 1..Len(calls[0].contacted) :
          LET contact == calls[0].contacted[j]
          IN  ("payload" \in DOMAIN contact /\ IsEmptyOrBlank(contact.payload)) =>
                  contact.outcome = "failed"
    /\ calls[0].status = "ok" =>
          LET contact == calls[0].contacted[Len(calls[0].contacted)]
          IN  "payload" \in DOMAIN contact => ~IsEmptyOrBlank(contact.payload)

\* the position of an element in a sequence that holds it once
PositionIn(seq, x) == CHOOSE i \in 1..Len(seq) : seq[i] = x

\* no name occurs twice in the list
NoRepeatedName(order) ==
    \A i, j \in 1..Len(order) : order[i] = order[j] => i = j

\* C13: for a non-empty preferredOrder without repeated names, the list that
\* generateAIResponse gets from getAvailableProviders(preferredOrder) holds
\* the same descriptors as the default list; the providers named in
\* preferredOrder come first, in preferredOrder's order; the providers not
\* named follow, in their relative default order.
C13_PreferredFirstOthersInDefaultOrder ==
    (/\ req.op = "generate"
     /\ pc # "start"
     /\ Len(req.preferredProviders) > 0
     /\ NoRepeatedName(req.preferredProviders)) =>
        LET order == req.preferredProviders
            default == DefaultProviders(env)
            got == IF calls[0].status = "noproviders" THEN <<>> ELSE calls[0].providers
            named(d) == \E k \in 1..Len(order) : order[k] = d.name
        IN  /\ Len(got) = Len(default)
            /\ \A i \in 1..Len(default) :
                  \E j \in 1..Len(got) : got[j] = default[i]
            /\ \A a, b \in 1..Len(got) :
                  a < b =>
                      /\ named(got[b]) => named(got[a])
                      /\ (named(got[a]) /\ named(got[b])) =>
                            PositionIn(order, got[a].name) <= PositionIn(order, got[b].name)
                      /\ (~named(got[a]) \/ got[a].name = got[b].name) =>
                            PositionIn(default, got[a]) < PositionIn(default, got[b])

\* C13 witness: two named providers were moved in front of the default list's
\* first provider, in an order opposite to the default one, and a provider
\* that was not named follows
C13_Witness ==
    /\ req.op = "generate"
    /\ calls[0].status = "running"
    /\ Len(req.preferredProviders) = 2
    /\ Len(calls[0].providers) >= 3
    /\ calls[0].providers[1].name = req.preferredProviders[1]
    /\ calls[0].providers[2].name = req.preferredProviders[2]
    /\ PositionIn(DefaultProviders(env), calls[0].providers[1])
          > PositionIn(DefaultProviders(env), calls[0].providers[2])
    /\ PositionIn(DefaultProviders(env), calls[0].providers[2]) > 1

\* C14: with no provider credential configured, every generateAIResponse
\* call ends with the no-providers-configured error and no provider is ever
\* contacted; interpretReport then answers once, with status 500 and the
\* message that tells to set an API key, and stores nothing.
C14_NoCredentialsAnswersRemediation ==
    KeyCount(env) = 0 =>
        /\ \A i \in CallIds :
              /\ calls[i].contacted = <<>>
              /\ calls[i].status \in {"idle", "noproviders"}
        /\ pc = "done" =>
              /\ calls[0].status = "noproviders"
              /\ out.status = "error"
              /\ out.http = 500
              /\ out.message = "No AI providers configured"
              /\ out.diseaseSaved = FALSE
              /\ out.historySaved = FALSE
              /\ ~ENABLED Next

\* C14 witness: the request of an environment without credentials was
\* answered
C14_Witness ==
    /\ KeyCount(env) = 0
    /\ pc = "done"
    /\ consensus.error = "No AI providers configured"
    /\ out.message = "No AI providers configured"

\* the line "Hemoglobin 9.2 g/dL 12.0-15.5 Low"
HemoglobinLine == <<HemoglobinWord, Value92, GramsPerDl, Range12to15, LowWord>>

\* C15: extractAbnormalFromText on the single line "Hemoglobin 9.2 g/dL
\* 12.0-15.5 Low" returns exactly one finding, with test "Hemoglobin", value
\* "9.2", unit "g/dL", referenceRange "12.0 - 15.5", flag "Low" and severity
\* "low".
C15_HemoglobinLineYieldsOneFinding ==
    (pc = "extracted" /\ report.parsedText = <<HemoglobinLine>>) =>
        /\ Len(report.fallbackFindings) = 1
        /\ report.fallbackFindings[1].test = <<"Hemoglobin">>
        /\ report.fallbackFindings[1].value = "9.2"
        /\ report.fallbackFindings[1].unit = "g/dL"
        /\ report.fallbackFindings[1].referenceRange = <<"12.0", "15.5">>
        /\ report.fallbackFindings[1].flag = "Low"
        /\ report.fallbackFindings[1].severity = "low"

\* C16: extractAbnormalFromText emits no finding from a line that holds a
\* normal-result word (normal, negative, wnl, within normal limits), under the
\* line-local and under the buffer strategy, even when the line also holds an
\* abnormal-flag word: a text whose every line holds a normal-result word
\* yields no finding.
C16_NormalLinesYieldNothing ==
    (pc = "extracted"
     /\ \A i \in DOMAIN report.parsedText : HasNormal(report.parsedText[i])) =>
        report.fallbackFindings = <<>>

\* C17: every finding of the abnormalFindings sequence that interpretReport
\* persists, produced by the text extractor or by normalizing the AI's
\* abnormal_values, has a non-empty test and a non-empty value.
C17_PersistedFindingsHaveTestAndValue ==
    out.diseaseSaved =>
        \A i \in DOMAIN report.abnormalFindings :
            /\ report.abnormalFindings[i].test # <<>>
            /\ report.abnormalFindings[i].value # ""

\* the extracted findings whose test is the test of the AI finding f
TwinsOf(f, extracted) == {e \in DOMAIN extracted : SameTest(f, extracted[e])}

\* C18: after the merge of the AI findings with the extracted findings, every
\* AI finding is at its own position with its own fields, except that an AI
\* finding with an empty referenceRange whose test is the test of an extracted
\* finding (case-insensitive) has the referenceRange of such an extracted
\* finding and no other field changed; an AI finding that has a referenceRange
\* is unchanged; every extracted finding without a matching AI finding is
\* appended after the AI findings.
C18_MergeKeepsPatchesAppends ==
    pc = "merged" =>
        LET ai == NormalizedFindings(report.abnormal_values)
            extracted == report.fallbackFindings
            merged == report.abnormalFindings
        IN  /\ Len(merged) >= Len(ai)
            /\ \A j \in DOMAIN ai :
                  IF ai[j].referenceRange = <<>> /\ TwinsOf(ai[j], extracted) # {}
                  THEN \E e \in TwinsOf(ai[j], extracted) :
                          merged[j] = [ai[j] EXCEPT
                                          !.referenceRange = extracted[e].referenceRange]
                  ELSE merged[j] = ai[j]
            /\ \A e \in DOMAIN extracted :
                  (\A j \in DOMAIN ai : ~SameTest(ai[j], extracted[e])) =>
                      \E k \in (Len(ai) + 1)..Len(merged) : merged[k] = extracted[e]

\* C19: the record persisted by interpretReport after a successful consensus
\* call carries the attribution of that call: the providers used and the
\* models used (with the consensus-validated mark and the count of validating
\* providers, which result holds next to them).
C19_RecordCarriesAttribution ==
    (out.diseaseSaved /\ result.aiResponse = "consensus") =>
        /\ out.record.aiProvider # "undefined"
        /\ out.record.aiModel # "undefined"

\* abnormalFindings as the merge left them, before the range enrichment
MergedFindings ==
    MergedWith(NormalizedFindings(report.abnormal_values),
               extractAbnormalFromText(report.parsedText))

\* the value a section has after its step failed: the findings as merged, one
\* entry per medication without drug data, no statistics, the web resources
\* or the generated list or nothing in place of videos, no specialists
FailureValues ==
    /\ "ranges" \in report.failed => report.abnormalFindings = MergedFindings
    /\ "medications" \in report.failed =>
          /\ report.medicationDetails # <<>>
          /\ \A i \in DOMAIN report.medicationDetails :
                /\ report.medicationDetails[i].rxCUI = "null"
                /\ report.medicationDetails[i].sources = {}
    /\ "statistics" \in report.failed => report.globalStatistics = "empty"
    /\ "videos" \in report.failed =>
          report.videoResources \in {"web", "generated", "empty"}
    /\ "specialists" \in report.failed => report.specialistProviders = "empty"

C25_OneFindingPerTest ==
    pc = "extracted" =>
        \A i \in DOMAIN report.fallbackFindings :
            \A j \in DOMAIN report.fallbackFindings :
                i < j => LowerText(report.fallbackFindings[i].test)
                            # LowerText(report.fallbackFindings[j].test)

\* what the line-local strategy finds in a text
LineLocalFindings(text) == TableFindings(text, 1)

\* what the buffer strategy finds in a text
BufferFindings(text) == ParseRows(BufferRows(text, 1, <<>>), 1, <<>>, <<>>)

\* the line-local finding with its empty referenceRange filled from the buffer
\* finding of the same test
FilledFrom(local, buffer) ==
    IF local.referenceRange = <<>> /\ buffer.referenceRange # <<>>
    THEN [local EXCEPT !.referenceRange = buffer.referenceRange]
    ELSE local

\* C26: when the line-local and the buffer strategy both produce a finding for
\* a test name, the extractor keeps the line-local finding's fields, with an
\* empty referenceRange filled from the buffer finding when that one has a
\* range; a buffer finding for a test not found line-locally is added.
C26_LineLocalWinsBufferFillsGaps ==
    pc = "extracted" =>
        LET local == LineLocalFindings(report.parsedText)
            buffer == BufferFindings(report.parsedText)
            findings == report.fallbackFindings
        IN  \A b \in DOMAIN buffer :
                IF \E l \in DOMAIN local : SameTest(local[l], buffer[b])
                THEN \A l \in DOMAIN local :
                        SameTest(local[l], buffer[b]) =>
                            \E k \in DOMAIN findings :
                                findings[k] = FilledFrom(local[l], buffer[b])
                ELSE \E k \in DOMAIN findings : findings[k] = buffer[b]

\* the adapter call whose content the i-th per-provider call returned
AnsweredBy(i) == calls[i].contacted[Len(calls[i].contacted)].target

\* the per-provider calls counted in the consensus result
CountedCalls ==
    {i \in 1..Len(ConsensusProviders(env)) : calls[i].status = "ok"}

\* C28: every response counted in a consensus result and attributed to
\* provider P with model M carries content returned by P's own adapter: no
\* per-provider call falls through to another provider, and no adapter's
\* answer is counted as two votes.
C28_VotesComeFromOwnAdapter ==
    consensus.status = "returned" =>
        /\ \A i \in CountedCalls : AnsweredBy(i) = ConsensusTarget(i)
        /\ \A i \in CountedCalls : \A j \in CountedCalls :
              i # j => AnsweredBy(i) # AnsweredBy(j)

\* the responses getConsensusResponse synthesized
CountedResponses == CollectResponses(calls, ConsensusProviders(env))

\* C29: interpretReport sets consensusValidated = true only when at least two
\* providers' responses were parsed and took part in the vote; it is false
\* when the consensus strategy is 'single' or 'fallback'.
C29_ValidatedMeansTwoParsedVotes ==
    (result.defined /\ result.aiResponse = "consensus"
        /\ result.consensusValidated) =>
        /\ consensus.value.consensus \notin {"single", "fallback"}
        /\ Len(ParsedObjects(CountedResponses)) >= 2

\* the entries of the answer that match a finding exactly, by containment,
\* by common words
ExactEntries(referenceRanges, f) ==
    {e \in DOMAIN referenceRanges : ExactMatch(referenceRanges[e], f)}

ContainmentEntries(referenceRanges, f) ==
    {e \in DOMAIN referenceRanges :
        /\ referenceRanges[e].test # <<>>
        /\ f.test # <<>>
        /\ \/ IncludesText(LowerText(referenceRanges[e].test), LowerText(f.test))
           \/ IncludesText(LowerText(f.test), LowerText(referenceRanges[e].test))}

OverlapEntries(referenceRanges, f) ==
    {e \in DOMAIN referenceRanges : MatchesEntry(referenceRanges[e], f)}

\* the entries of the best kind of match a finding has in the answer
PreferredEntries(referenceRanges, f) ==
    IF ExactEntries(referenceRanges, f) # {} THEN ExactEntries(referenceRanges, f)
    ELSE IF ContainmentEntries(referenceRanges, f) # {}
    THEN ContainmentEntries(referenceRanges, f)
    ELSE OverlapEntries(referenceRanges, f)

\* C27: for each finding the reference-range entry used is chosen by
\* preference: an exactly matching test name if the list has one, otherwise a
\* substring match, otherwise a token-overlap (>= 60%) match, whatever the
\* order of the entries in the list.
C27_ExactMatchPreferred ==
    (req.op = "ranges" /\ pc = "ranged" /\ "ranges" \notin report.failed) =>
        \A k \in DOMAIN report.enrichedFindings :
            LET f == report.enrichedFindings[k]
                asked == [f EXCEPT !.referenceRange = <<>>]
                preferred == PreferredEntries(report.referenceRanges, asked)
            IN  IF preferred = {}
                THEN f = asked
                ELSE \E e \in preferred :
                        f = IF Usable(report.referenceRanges[e])
                            THEN [asked EXCEPT !.referenceRange =
                                     report.referenceRanges[e].reference_range]
                            ELSE asked

\* C30: the reference-range enrichment step changes only findings whose
\* referenceRange was empty before the step; a finding that had a range
\* keeps it, also when another finding of the identical test was enriched.
C30_RangedFindingsKeepTheirRange ==
    [][(pc = "merged" /\ pc' = "ranged") =>
          /\ Len(report'.abnormalFindings) = Len(report.abnormalFindings)
          /\ \A i \in DOMAIN report.abnormalFindings :
                ~NeedsRange(report.abnormalFindings[i]) =>
                    report'.abnormalFindings[i] = report.abnormalFindings[i]]_vars

\* C22: within one generateAIResponse call no target is requested twice: no
\* provider name is attempted more than once by the chain, and inside an
\* adapter's model loop no model is requested again after it failed.
C22_NoTargetRequestedTwice ==
    /\ \A i \in CallIds :
          \A j \in DOMAIN calls[i].contacted : \A k \in DOMAIN calls[i].contacted :
             j < k => calls[i].contacted[j].target.name # calls[i].contacted[k].target.name
    /\ \A j \in DOMAIN adapter.requests : \A k \in DOMAIN adapter.requests :
          j < k => adapter.requests[j].model # adapter.requests[k].model

\* the requests of callOpenRouter's fallback loop
FallbackRequests == SubSeq(adapter.requests, 2, Len(adapter.requests))

\* the fallback models other than the requested one, in list order
FallbackCandidates ==
    LET models == OpenRouterFallbackModels(adapter.model)
    IN  SeqFilter(models, [i \in DOMAIN models |-> models[i] # adapter.model])

\* C23: in callOpenRouter's fallback-model loop, models are tried in list
\* order; the first fallback response that is 2xx with non-empty content is
\* returned; a 400 from a fallback model stops the loop, so no later fallback
\* model is requested; when no fallback succeeds the original failure is
\* raised.
C23_OpenRouterFallbackLoop ==
    (adapter.name = OPENROUTER /\ Len(adapter.requests) >= 1) =>
        LET fallback == FallbackRequests
            candidates == FallbackCandidates
            last == Len(fallback)
        IN  /\ last <= Len(candidates)
            /\ \A j \in DOMAIN fallback : fallback[j].model = candidates[j]
            /\ \A j \in DOMAIN fallback :
                  fallback[j].outcome = "content" =>
                      /\ j = last
                      /\ adapter.status = "returned"
                      /\ adapter.content = ReplyOf(fallback[j].model)
            /\ \A j \in DOMAIN fallback :
                  fallback[j].outcome = "400" =>
                      j = last /\ adapter.status = "threw"
            /\ (adapter.status = "returned" /\ last > 0) =>
                  fallback[last].outcome = "content"
            /\ (adapter.status = "threw" /\ adapter.error # "none") =>
                  /\ adapter.thrown = adapter.requests[1].outcome
                  /\ \A j \in DOMAIN fallback : fallback[j].outcome # "content"
                  /\ \/ last = Len(candidates)
                     \/ last > 0 /\ fallback[last].outcome = "400"

\* the primary request failed with a 404, the first fallback model answered
\* without content, the second with a 400, and the 404 failure was raised
\* with fallback models left untried
C23_Witness ==
    /\ adapter.name = OPENROUTER
    /\ adapter.status = "threw"
    /\ Len(adapter.requests) = 3
    /\ adapter.requests[1].outcome = "404"
    /\ adapter.requests[2].outcome = "empty"
    /\ adapter.requests[3].outcome = "400"
    /\ adapter.thrown = "404"
    /\ Len(FallbackCandidates) > 2

\* C24: for every adapter and every caller-supplied maxTokens and
\* temperature, the values sent to the backend lie in the accepted range: at
\* least one token and a temperature that is not negative for every backend,
\* and max_tokens in 1..32000 and temperature in 0..2 for OpenRouter.
C24_SentValuesInRange ==
    \A j \in DOMAIN adapter.requests :
        LET request == adapter.requests[j]
        IN  request.sendsConfig =>
               /\ request.max_tokens >= 1
               /\ request.temperature >= 0
               /\ adapter.name = OPENROUTER =>
                     /\ request.max_tokens <= 32000
                     /\ request.temperature <= 20

\* C21: in the shared drug-lookup cache each key is written at most once
\* during the process lifetime, for every interleaving of concurrent
\* enrichMedications calls that look up the same drug name.
C21_EachKeyWrittenOnce ==
    req.op = "lookups" => \A key \in CacheKeys : writes[key] <= 1

====
